---- MODULE Spec2Model ----
(***************************************************************************)
(* Face tracking / recognition loop (src/src/recognize_face.py) and the    *)
(* human-in-the-loop threshold controller                                  *)
(* (src/src/reinforcement_learning/hitl_trainer.py).                       *)
(*                                                                         *)
(* Numbers: similarities and thresholds are Python floats in the source.   *)
(* Here they are decimal fixed-point integers with Scale units per 1.0     *)
(* (0.80 is 8000); a product is rounded to the nearest unit.               *)
(* Opaque payloads that no decision reads (embedding vectors of pending    *)
(* predictions, wall-clock timestamps of the controller's records, the     *)
(* formatted 'message' and 'person_accuracy' of a result) are left out.    *)
(***************************************************************************)
EXTENDS Integers, Sequences, FiniteSets, TLC

VARIABLES
    rl,       \* the ReinforcementTracker object (its attributes as fields)
    result,   \* the controller method called last and the value it returned
    disk,     \* the file at the path given to save and load
    threads,  \* execution context -> the controller call it is inside, with
              \* the locals of that call and its position in it
    issued,   \* the calls started by the contexts, in the order of their start
    \* recognize_faces_live: locals of the function and position in its loop
    pc,               \* "capture": top of the while loop; "faces": inside the
                      \* for loop over current_detections; "done": loop left
    tracked_faces,    \* tracker_id -> tracker dictionary
    next_tracker_id,
    recent_unknowns,  \* sequence of [feature, timestamp]
    matched_tracker_ids,
    remaining,        \* detections of the current frame not yet processed
    now,              \* time.time(), in seconds
    events,           \* calls made to the logger, audio and e-mail collaborators
    \* observations of the run, read by the properties only
    frame_no,         \* frames captured so far
    last_match,       \* tracker_id -> frame_no of the frame that matched it last
    assigned,         \* the ids given to new trackers, in creation order
    detected,         \* detections processed so far
    assoc,            \* per detection processed in the current frame: its box,
                      \* the tracker it was given, whether that was created,
                      \* the best IoU found and the name displayed
    \* get_iou applied to a pair of boxes
    boxA, boxB, iou

ctxvars == <<threads, issued>>

rlvars == <<rl, result, disk, ctxvars>>

trackvars == <<pc, tracked_faces, next_tracker_id, recent_unknowns,
               matched_tracker_ids, remaining, now, events,
               frame_no, detected, last_match, assigned, assoc>>

iouvars == <<boxA, boxB, iou>>

vars == <<rlvars, trackvars, iouvars>>

----------------------------------------------------------------------------
(* Fixed-point arithmetic *)

Scale == 10 ^ 4

Min2(a, b) == IF a <= b THEN a ELSE b

Max2(a, b) == IF a >= b THEN a ELSE b

\* a * b of two fixed-point numbers, rounded to the nearest unit
\* (half away from zero, so that (-a) * b = -(a * b) as for floats)
Mul(a, b) ==
    LET p == a * b
    IN  IF p >= 0 THEN (p + Scale \div 2) \div Scale
        ELSE -((Scale \div 2 - p) \div Scale)

\* a / n for a fixed-point a and a positive integer n, rounded
DivInt(a, n) == (2 * a + n) \div (2 * n)

----------------------------------------------------------------------------
(* Bounds of the model *)

MaxPending == 2      \* max_pending given to the constructor
MaxFeedback == 2     \* feedback events accepted in one run of SpecRL
DeepFeedback == 8    \* feedback events accepted in one run of SpecRLDeep

None == "None"

Unknown == "Unknown"

InitialThresholds == {8000, 9200}

Sims == {8200, 10000}

PredictedNames == {"Alice"}

TrueNames == {None, "Bob"}

FrameIds == {1, 2}

DeepSims == {10000}

DeepTrueNames == {None, "Alice"}

DeepFrameIds == {1}

BufferFrames == 4    \* predictions logged in one run of SpecBuffer

AdaptFeedback == 10  \* feedback events accepted in one run of SpecAdapt

AdaptThresholds == {6600, 9200}

AdaptNames == {None, "Alice", "Bob"}

PersistFeedback == 2 \* feedback events in the history in SpecPersist

PersistSims == {8200}

PersistFrameIds == {1}

MaxFrames == 7       \* frames captured in one run of SpecTrack
MaxFaces == 2        \* faces the detector finds in one frame
MaxDetections == 3   \* faces processed in one run of SpecTrack
AlertFrames == 4     \* frames captured in one run of SpecAlert
CooldownFrames == 3  \* frames captured in one run of SpecCooldown
CooldownDetections == 4 \* faces processed in one run of SpecCooldown
ConfirmFrames == 5   \* frames captured in one run of SpecConfirm
MaxCoord == 2        \* largest box coordinate in SpecIou

\* detections [x, y, w, h]: the first two overlap with IoU 0.6, the third
\* overlaps each of them with IoU 0.3
Faces == {<<0, 0, 4, 5>>, <<1, 0, 4, 5>>, <<1, 0, 3, 2>>}

KnownNames == {"Alice", "Bob"}

Scores == {8000, 9000}

FrameGaps == {1}

\* seconds between frames in the runs about alerts
AlertGaps == {3, 300}

CooldownGaps == {6, 300}

Features == {"u1", "u2"}

\* two detections that do not overlap
AlertFaces == {<<0, 0, 4, 5>>, <<10, 0, 4, 5>>}

----------------------------------------------------------------------------
(* ReinforcementTracker *)

DefaultStats ==
    [correct |-> 0, incorrect |-> 0, total |-> 0,
     avg_similarity |-> 0, confidence_sum |-> 0]

\* __init__(learning_rate, threshold_bounds, initial_threshold, max_pending)
ReinforcementTracker(learning_rate, lo, hi, initial_threshold, max_pending) ==
    [learning_rate |-> learning_rate,
     min_threshold |-> lo,
     max_threshold |-> hi,
     threshold |-> initial_threshold,
     pending_feedback |-> << >>,
     max_pending |-> max_pending,
     feedback_history |-> << >>,
     person_thresholds |-> << >>,
     person_stats |-> << >>,
     similarity_correct |-> << >>,
     similarity_incorrect |-> << >>,
     session_feedback_count |-> 0]

\* person_stats is a defaultdict: reading a missing name yields the default
StatsOf(person_stats, name) ==
    IF name \in DOMAIN person_stats THEN person_stats[name] ELSE DefaultStats

Put(f, k, v) == [x \in (DOMAIN f) \cup {k} |-> IF x = k THEN v ELSE f[x]]

\* a slip of Tail1: the newest entry is dropped
DropNewest(s) == SubSeq(s, 1, Len(s) - 1)

\* self.pending_feedback.pop(0)
Tail1(s) == SubSeq(s, 2, Len(s))

log_prediction(self, predicted_name, similarity, frame_id) ==
    LET prediction == [predicted |-> predicted_name,
                       similarity |-> similarity,
                       frame_id |-> frame_id]
        appended == Append(self.pending_feedback, prediction)
    IN  [self EXCEPT !.pending_feedback =
            IF Len(appended) > self.max_pending THEN Tail1(appended) ELSE appended]

\* next((p for p in pending_feedback if p['frame_id'] == frame_id), None):
\* the index of the first such entry, 0 for None
FindPrediction(pending, frame_id) ==
    IF \E i \in 1..Len(pending) : pending[i].frame_id = frame_id
    THEN CHOOSE i \in 1..Len(pending) :
            /\ pending[i].frame_id = frame_id
            /\ \A j \in 1..(i - 1) : pending[j].frame_id # frame_id
    ELSE 0

\* similarity < self.threshold + 0.1.  In binary floating point the sum
\* threshold + 0.1 may round to either side of the decimal value, so when
\* similarity equals it exactly the comparison can go either way (tie).
CloseToThreshold(similarity, threshold, tie) ==
    \/ similarity < threshold + 1000
    \/ tie /\ similarity = threshold + 1000

\* a slip of UpdateThreshold: a correct prediction always lowers the threshold
UpdateThresholdRelaxing(self, similarity, is_correct, tie) ==
    IF is_correct
    THEN IF CloseToThreshold(similarity, self.threshold, tie)
         THEN LET adjustment == Mul(-self.learning_rate, self.threshold - similarity)
              IN  Max2(self.min_threshold,
                       self.threshold + Min2(adjustment, -adjustment))
         ELSE self.threshold
    ELSE LET adjustment == Mul(self.learning_rate, Scale + similarity)
         IN  Min2(self.max_threshold, self.threshold + adjustment)

\* the global threshold after a feedback event (lines 141-152)
UpdateThreshold(self, similarity, is_correct, tie) ==
    IF is_correct
    THEN IF CloseToThreshold(similarity, self.threshold, tie)
         THEN LET adjustment == Mul(-self.learning_rate, self.threshold - similarity)
              IN  Max2(self.min_threshold, self.threshold + adjustment)
         ELSE self.threshold
    ELSE LET adjustment == Mul(self.learning_rate, Scale + similarity)
         IN  Min2(self.max_threshold, self.threshold + adjustment)

\* a slip of UpdateStats: an incorrect prediction is not counted
UpdateStatsCorrectOnly(stats, similarity, is_correct) ==
    [stats EXCEPT !.total = @ + 1,
                  !.correct = IF is_correct THEN @ + 1 ELSE @,
                  !.confidence_sum = @ + similarity,
                  !.avg_similarity = DivInt(stats.confidence_sum + similarity,
                                            stats.total + 1)]

\* the statistics of the resolved person after a feedback event (lines 155-165)
UpdateStats(stats, similarity, is_correct) ==
    LET total == stats.total + 1
        confidence_sum == stats.confidence_sum + similarity
    IN  [correct |-> IF is_correct THEN stats.correct + 1 ELSE stats.correct,
         incorrect |-> IF is_correct THEN stats.incorrect ELSE stats.incorrect + 1,
         total |-> total,
         avg_similarity |-> DivInt(confidence_sum, total),
         confidence_sum |-> confidence_sum]

\* a slip of AccuracyBelow75: the limit taken as 0.5
AccuracyBelowHalf(stats) == 2 * stats.correct < stats.total

\* accuracy = correct / total compared with 0.75 and 0.95, in integers
AccuracyBelow75(stats) == 4 * stats.correct < 3 * stats.total

AccuracyAbove95(stats) == 20 * stats.correct > 19 * stats.total

\* person_thresholds after a feedback event (lines 170-190)
AdaptPersonThreshold(person_thresholds, actual_name, stats, threshold, lo, hi) ==
    IF stats.total >= 5
    THEN IF AccuracyBelow75(stats)
         THEN Put(person_thresholds, actual_name, Min2(hi, threshold + 800))
         ELSE IF AccuracyAbove95(stats) /\ stats.total >= 10
         THEN Put(person_thresholds, actual_name, Max2(lo, threshold - 500))
         ELSE IF actual_name \in DOMAIN person_thresholds
         THEN Put(person_thresholds, actual_name,
                  Mul(7000, person_thresholds[actual_name]) + Mul(3000, threshold))
         ELSE person_thresholds
    ELSE person_thresholds

\* [p for p in pending if p['frame_id'] != frame_id]
RemoveFrame(pending, frame_id) ==
    SelectSeq(pending, LAMBDA p : p.frame_id # frame_id)

\* a slip of NotFound: the call is counted as feedback although it failed
NotFoundCounted(self, frame_id) ==
    [self |-> [self EXCEPT !.session_feedback_count = @ + 1],
     ret |-> [success |-> FALSE]]

\* the early return of provide_feedback when no pending entry has frame_id
NotFound(self, frame_id) ==
    [self |-> self, ret |-> [success |-> FALSE]]

\* provide_feedback: the object after the call and the value returned
provide_feedback(self, frame_id, is_correct, true_name, tie) ==
    LET i == FindPrediction(self.pending_feedback, frame_id) IN
    IF i = 0
    THEN NotFound(self, frame_id)
    ELSE
    LET pred == self.pending_feedback[i]
        reward == IF is_correct THEN 1 ELSE -1
        predicted_name == pred.predicted
        similarity == pred.similarity
        actual_name == IF is_correct THEN predicted_name
                       ELSE IF true_name # None THEN true_name ELSE Unknown
        old_threshold == self.threshold
        new_threshold == UpdateThreshold(self, similarity, is_correct, tie)
        stats == UpdateStats(StatsOf(self.person_stats, actual_name),
                             similarity, is_correct)
        feedback_entry == [frame_id |-> frame_id,
                           predicted |-> predicted_name,
                           actual |-> actual_name,
                           is_correct |-> is_correct,
                           similarity |-> similarity,
                           reward |-> reward,
                           old_threshold |-> old_threshold,
                           new_threshold |-> new_threshold]
    IN  [self |->
            [self EXCEPT
                !.threshold = new_threshold,
                !.person_stats = Put(self.person_stats, actual_name, stats),
                !.similarity_correct =
                    IF is_correct THEN Append(@, similarity) ELSE @,
                !.similarity_incorrect =
                    IF is_correct THEN @ ELSE Append(@, similarity),
                !.person_thresholds =
                    AdaptPersonThreshold(@, actual_name, stats, new_threshold,
                                         self.min_threshold, self.max_threshold),
                !.feedback_history = Append(@, feedback_entry),
                !.session_feedback_count = @ + 1,
                !.pending_feedback = RemoveFrame(@, frame_id)],
         ret |-> [success |-> TRUE,
                  reward |-> reward,
                  old_threshold |-> old_threshold,
                  new_threshold |-> new_threshold,
                  predicted |-> predicted_name,
                  actual |-> actual_name,
                  similarity |-> similarity]]

\* provide_feedback_on_latest (lines 238-245): the frame_id of the last
\* pending entry is handed to provide_feedback
provide_feedback_on_latest(self, is_correct, true_name, tie) ==
    IF self.pending_feedback = << >>
    THEN [self |-> self, ret |-> [success |-> FALSE]]
    ELSE LET latest == self.pending_feedback[Len(self.pending_feedback)]
         IN  provide_feedback(self, latest.frame_id, is_correct, true_name, tie)

\* a slip of get_threshold: the override of a person is ignored
get_threshold_global(self, person_name) == self.threshold

\* get_threshold (lines 257-259); person_name is None when not given
get_threshold(self, person_name) ==
    IF person_name # None /\ person_name \in DOMAIN self.person_thresholds
    THEN self.person_thresholds[person_name]
    ELSE self.threshold

\* the path of save and load: no file, a file pickle cannot read, or a
\* pickled dict
NoFile == [kind |-> "missing"]

Garbage == [kind |-> "garbage"]

Pickled(data) == [kind |-> "pickle", data |-> data]

\* save (lines 351-365): the file written
save(self) ==
    Pickled([threshold |-> self.threshold,
             person_thresholds |-> self.person_thresholds,
             person_stats |-> self.person_stats,
             feedback_history |-> self.feedback_history,
             similarity_correct |-> self.similarity_correct,
             similarity_incorrect |-> self.similarity_incorrect,
             learning_rate |-> self.learning_rate,
             threshold_bounds |-> <<self.min_threshold, self.max_threshold>>,
             version |-> "1.0.0"])

\* data.get(key, default)
GetOr(data, key, default) == IF key \in DOMAIN data THEN data[key] ELSE default

\* a slip of load: the statistics of the file are not restored
load_without_stats(self, file) ==
    IF file.kind # "pickle" \/ "feedback_history" \notin DOMAIN file.data
    THEN [self |-> self, ret |-> FALSE]
    ELSE [self |-> [self EXCEPT !.threshold = file.data.threshold,
                                !.person_thresholds = file.data.person_thresholds,
                                !.feedback_history = file.data.feedback_history],
          ret |-> TRUE]

\* a slip of load: a missing file resets the threshold
load_missing_resets(self, file) ==
    [self |-> [self EXCEPT !.threshold = 8000], ret |-> FALSE]

\* lines 382-384: no file at the path
LoadMissing(self, file) == [self |-> self, ret |-> FALSE]

\* load (lines 382-419): the object after the call and the value returned.
\* The assignments of lines 391-406 run in order; a missing key raises
\* KeyError at its line, and the handler of line 417 returns False with
\* the assignments made so far in place.
load(self, file) ==
    IF file.kind = "missing" THEN LoadMissing(self, file)
    ELSE IF file.kind = "garbage" THEN [self |-> self, ret |-> FALSE]
    ELSE
    LET data == file.data
        s1 == [self EXCEPT !.threshold = data.threshold]
        s2 == [s1 EXCEPT !.person_thresholds = data.person_thresholds]
        s3 == [s2 EXCEPT !.person_stats = << >>]
        s4 == [s3 EXCEPT !.person_stats = data.person_stats]
        s5 == [s4 EXCEPT !.feedback_history = data.feedback_history]
        s6 == [s5 EXCEPT
                 !.similarity_correct = GetOr(data, "similarity_correct", << >>),
                 !.similarity_incorrect = GetOr(data, "similarity_incorrect", << >>)]
        s7 == IF "learning_rate" \in DOMAIN data
              THEN [s6 EXCEPT !.learning_rate = data.learning_rate]
              ELSE s6
        s8 == IF "threshold_bounds" \in DOMAIN data
              THEN [s7 EXCEPT !.min_threshold = data.threshold_bounds[1],
                              !.max_threshold = data.threshold_bounds[2]]
              ELSE s7
    IN  IF "threshold" \notin DOMAIN data THEN [self |-> self, ret |-> FALSE]
        ELSE IF "person_thresholds" \notin DOMAIN data THEN [self |-> s1, ret |-> FALSE]
        ELSE IF "person_stats" \notin DOMAIN data THEN [self |-> s3, ret |-> FALSE]
        ELSE IF "feedback_history" \notin DOMAIN data THEN [self |-> s4, ret |-> FALSE]
        ELSE [self |-> s8, ret |-> TRUE]

\* a slip of reset: the feedback history is kept
reset_keeping_history(self) ==
    [self EXCEPT !.threshold = 8000,
                 !.person_thresholds = << >>,
                 !.person_stats = << >>,
                 !.similarity_correct = << >>,
                 !.similarity_incorrect = << >>,
                 !.pending_feedback = << >>,
                 !.session_feedback_count = 0]

\* reset (lines 438-449)
reset(self) ==
    [self EXCEPT !.threshold = 8000,
                 !.person_thresholds = << >>,
                 !.person_stats = << >>,
                 !.feedback_history = << >>,
                 !.similarity_correct = << >>,
                 !.similarity_incorrect = << >>,
                 !.pending_feedback = << >>,
                 !.session_feedback_count = 0]

----------------------------------------------------------------------------
(* recognize_faces_live: helpers *)

PREDICTION_HISTORY_SIZE == 10

TRACKER_TTL == 5

CONFIRMATION_THRESHOLD == 3

UNKNOWN_ALERT_DURATION == 5

UNKNOWN_COOLDOWN_SECONDS == 300

\* the default of the parameter confidence_threshold (0.8)
confidence_threshold == 8000

\* [x, y, x + w, y + h] of a detection [x, y, w, h]
CurrentBox(x, y, w, h) == <<x, y, x + w, y + h>>

\* a slip of get_iou: the area of boxB taken with the height of boxA
get_iou_wrong_area(a, b) ==
    LET xA == Max2(a[1], b[1])
        yA == Max2(a[2], b[2])
        xB == Min2(a[3], b[3])
        yB == Min2(a[4], b[4])
        interArea == Max2(0, xB - xA) * Max2(0, yB - yA)
        boxAArea == (a[3] - a[1]) * (a[4] - a[2])
        boxBArea == (b[3] - b[1]) * (a[4] - a[2])
    IN  [num |-> interArea, den |-> boxAArea + boxBArea - interArea]

\* get_iou: the quotient interArea / (boxAArea + boxBArea - interArea) as
\* numerator and denominator; den = 0 is the ZeroDivisionError of line 64
get_iou(a, b) ==
    LET xA == Max2(a[1], b[1])
        yA == Max2(a[2], b[2])
        xB == Min2(a[3], b[3])
        yB == Min2(a[4], b[4])
        interArea == Max2(0, xB - xA) * Max2(0, yB - yA)
        boxAArea == (a[3] - a[1]) * (a[4] - a[2])
        boxBArea == (b[3] - b[1]) * (b[4] - b[2])
    IN  [num |-> interArea, den |-> boxAArea + boxBArea - interArea]

\* comparisons of two quotients with positive denominators
IouGreater(p, q) == p.num * q.den > q.num * p.den

IouEqual(p, q) == p.num * q.den = q.num * p.den

\* iou > 0.5
AboveHalf(p) == 2 * p.num > p.den

SetMin(S) == CHOOSE x \in S : \A y \in S : x <= y

\* the loop of lines 124-130 over tracked_faces.items(), a dict that is
\* filled in increasing id order and so iterated in increasing id order;
\* best is [iou, id] with id = -1 for None
RECURSIVE BestTracker(_, _, _, _)
BestTracker(faces, ids, current_box, best) ==
    IF ids = {} THEN best
    ELSE LET tracker_id == SetMin(ids)
             i == get_iou(current_box, faces[tracker_id].box)
         IN  BestTracker(faces, ids \ {tracker_id}, current_box,
                         IF IouGreater(i, best.iou)
                         THEN [iou |-> i, id |-> tracker_id]
                         ELSE best)

NoBest == [iou |-> [num |-> 0, den |-> 1], id |-> -1]

\* a slip of Matches: a tracker matched earlier in the frame is taken again
MatchesAgain(best, matched) == AboveHalf(best.iou)

\* line 133: best_iou > 0.5 and best_tracker_id not in matched_tracker_ids
Matches(best, matched) == AboveHalf(best.iou) /\ best.id \notin matched

\* a slip of NextTrackerId: the counter is left as it is
NextTrackerIdStuck(id) == id

\* line 148: next_tracker_id += 1
NextTrackerId(id) == id + 1

\* the dictionary of lines 137-145 ('box' and 'ttl' are set at 218-219)
NewTracker(id, time) ==
    [id |-> id,
     predictions |-> << >>,
     confirmed_name |-> Unknown,
     confirmation_streak |-> 0,
     first_seen |-> time,
     alert_sent |-> FALSE,
     log_and_audio_triggered |-> FALSE]

\* deque(maxlen=PREDICTION_HISTORY_SIZE).append
DequeAppend(d, v) ==
    IF Len(d) >= PREDICTION_HISTORY_SIZE
    THEN Append(SubSeq(d, 2, Len(d)), v)
    ELSE Append(d, v)

\* lines 164-167: the name appended to the history
Prediction(current_name, best_score) ==
    IF best_score > confidence_threshold THEN current_name ELSE Unknown

\* a slip of MostCommon: among equals the value met last wins
MostCommonLast(d) ==
    CHOOSE v \in {d[i] : i \in 1..Len(d)} :
        \A u \in {d[i] : i \in 1..Len(d)} :
            LET cu == Cardinality({i \in 1..Len(d) : d[i] = u})
                cv == Cardinality({i \in 1..Len(d) : d[i] = v})
                lu == CHOOSE i \in 1..Len(d) : d[i] = u /\ \A j \in (i + 1)..Len(d) : d[j] # u
                lv == CHOOSE i \in 1..Len(d) : d[i] = v /\ \A j \in (i + 1)..Len(d) : d[j] # v
            IN  cu < cv \/ (cu = cv /\ lu <= lv)

Count(d, v) == Cardinality({i \in 1..Len(d) : d[i] = v})

FirstIndex(d, v) == SetMin({i \in 1..Len(d) : d[i] = v})

\* Counter(d).most_common(1)[0][0] of a non-empty d: the value counted
\* most often, the one met first among equals
MostCommon(d) ==
    CHOOSE v \in {d[i] : i \in 1..Len(d)} :
        \A u \in {d[i] : i \in 1..Len(d)} :
            \/ Count(d, u) < Count(d, v)
            \/ Count(d, u) = Count(d, v) /\ FirstIndex(d, v) <= FirstIndex(d, u)

Event(event, name, tracker_id) ==
    [event |-> event, name |-> name, tracker_id |-> tracker_id]

\* a slip of Confirm: the locked name is kept only while the candidate agrees
ConfirmWhileAgreeing(tracker, candidate_name) ==
    IF tracker.confirmed_name # Unknown /\ candidate_name = tracker.confirmed_name
    THEN [tracker |-> tracker, name |-> tracker.confirmed_name, events |-> << >>]
    ELSE IF candidate_name # Unknown
    THEN LET streak == tracker.confirmation_streak + 1 IN
         IF streak >= CONFIRMATION_THRESHOLD
         THEN [tracker |-> [tracker EXCEPT !.confirmation_streak = streak,
                                           !.confirmed_name = candidate_name,
                                           !.log_and_audio_triggered = TRUE],
               name |-> candidate_name,
               events |-> IF tracker.log_and_audio_triggered THEN << >>
                          ELSE <<Event("KNOWN_PERSON_ENTRY", candidate_name, tracker.id),
                                 Event("welcome", candidate_name, tracker.id)>>]
         ELSE [tracker |-> [tracker EXCEPT !.confirmation_streak = streak],
               name |-> Unknown, events |-> << >>]
    ELSE [tracker |-> tracker, name |-> Unknown, events |-> << >>]

\* a slip of Confirm: a locked tracker is welcomed again in every frame
ConfirmWelcomingAgain(tracker, candidate_name) ==
    IF tracker.confirmed_name # Unknown
    THEN [tracker |-> tracker, name |-> tracker.confirmed_name,
          events |-> <<Event("KNOWN_PERSON_ENTRY", tracker.confirmed_name, tracker.id),
                       Event("welcome", tracker.confirmed_name, tracker.id)>>]
    ELSE IF candidate_name # Unknown
    THEN LET streak == tracker.confirmation_streak + 1 IN
         IF streak >= CONFIRMATION_THRESHOLD
         THEN [tracker |-> [tracker EXCEPT !.confirmation_streak = streak,
                                           !.confirmed_name = candidate_name,
                                           !.log_and_audio_triggered = TRUE],
               name |-> candidate_name,
               events |-> IF tracker.log_and_audio_triggered THEN << >>
                          ELSE <<Event("KNOWN_PERSON_ENTRY", candidate_name, tracker.id),
                                 Event("welcome", candidate_name, tracker.id)>>]
         ELSE [tracker |-> [tracker EXCEPT !.confirmation_streak = streak],
               name |-> Unknown, events |-> << >>]
    ELSE [tracker |-> tracker, name |-> Unknown, events |-> << >>]

\* a slip of Confirm: an "Unknown" majority takes the streak back to 0
ConfirmResettingStreak(tracker, candidate_name) ==
    IF tracker.confirmed_name # Unknown
    THEN [tracker |-> tracker, name |-> tracker.confirmed_name, events |-> << >>]
    ELSE IF candidate_name # Unknown
    THEN LET streak == tracker.confirmation_streak + 1 IN
         IF streak >= CONFIRMATION_THRESHOLD
         THEN [tracker |-> [tracker EXCEPT !.confirmation_streak = streak,
                                           !.confirmed_name = candidate_name,
                                           !.log_and_audio_triggered = TRUE],
               name |-> candidate_name,
               events |-> IF tracker.log_and_audio_triggered THEN << >>
                          ELSE <<Event("KNOWN_PERSON_ENTRY", candidate_name, tracker.id),
                                 Event("welcome", candidate_name, tracker.id)>>]
         ELSE [tracker |-> [tracker EXCEPT !.confirmation_streak = streak],
               name |-> Unknown, events |-> << >>]
    ELSE [tracker |-> [tracker EXCEPT !.confirmation_streak = 0],
          name |-> Unknown, events |-> << >>]

\* lines 170-188: the tracker after the confirmation logic, the name
\* displayed and the collaborator calls made
Confirm(tracker, candidate_name) ==
    IF tracker.confirmed_name # Unknown
    THEN [tracker |-> tracker, name |-> tracker.confirmed_name, events |-> << >>]
    ELSE IF candidate_name # Unknown
    THEN LET streak == tracker.confirmation_streak + 1 IN
         IF streak >= CONFIRMATION_THRESHOLD
         THEN [tracker |-> [tracker EXCEPT !.confirmation_streak = streak,
                                           !.confirmed_name = candidate_name,
                                           !.log_and_audio_triggered = TRUE],
               name |-> candidate_name,
               events |-> IF tracker.log_and_audio_triggered THEN << >>
                          ELSE <<Event("KNOWN_PERSON_ENTRY", candidate_name, tracker.id),
                                 Event("welcome", candidate_name, tracker.id)>>]
         ELSE [tracker |-> [tracker EXCEPT !.confirmation_streak = streak],
               name |-> Unknown, events |-> << >>]
    ELSE [tracker |-> tracker, name |-> Unknown, events |-> << >>]

\* face_recognizer.match(feature, other, FR_COSINE) of the OpenCV
\* recognizer: equal features score 1.0, different ones 0.3
Match(feature, other) == IF feature = other THEN 10000 ELSE 3000

\* line 196: the entries kept by the clean-up of recent_unknowns
\* a slip of StillRecent: entries are never dropped
StillRecentForever(unknowns, time) == unknowns

\* line 196: the entries of recent_unknowns younger than the cooldown
StillRecent(unknowns, time) ==
    SelectSeq(unknowns, LAMBDA u : time - u.timestamp < UNKNOWN_COOLDOWN_SECONDS)

\* logger.log_event('UNKNOWN_PERSON_ALERT', details=snapshot path): the call
\* with, for the properties, the time and the embedding of the alert
AlertEvent(tracker_id, time, feature) ==
    [event |-> "UNKNOWN_PERSON_ALERT", name |-> "N/A", tracker_id |-> tracker_id,
     time |-> time, feature |-> feature]

\* a slip of Alert: the name displayed is not looked at
AlertWhateverName(tracker, name, feature, unknowns, time) ==
    IF ~tracker.alert_sent
    THEN LET time_visible == time - tracker.first_seen IN
         IF time_visible > UNKNOWN_ALERT_DURATION
         THEN LET kept == StillRecent(unknowns, time)
                  is_new_unknown ==
                      ~\E i \in 1..Len(kept) :
                          Match(feature, kept[i].feature) > confidence_threshold
              IN  [tracker |-> [tracker EXCEPT !.alert_sent = TRUE],
                   recent_unknowns |->
                       IF is_new_unknown
                       THEN Append(kept, [feature |-> feature, timestamp |-> time])
                       ELSE kept,
                   events |->
                       IF is_new_unknown
                       THEN <<AlertEvent(tracker.id, time, feature),
                              Event("send_alert_email", "N/A", tracker.id),
                              Event("unknown_alert", "N/A", tracker.id)>>
                       ELSE << >>]
         ELSE [tracker |-> tracker, recent_unknowns |-> unknowns, events |-> << >>]
    ELSE [tracker |-> tracker, recent_unknowns |-> unknowns, events |-> << >>]

\* a slip of Alert: alert_sent is not set
AlertAgain(tracker, name, feature, unknowns, time) ==
    IF name = Unknown /\ ~tracker.alert_sent
    THEN LET time_visible == time - tracker.first_seen IN
         IF time_visible > UNKNOWN_ALERT_DURATION
         THEN LET kept == StillRecent(unknowns, time)
                  is_new_unknown ==
                      ~\E i \in 1..Len(kept) :
                          Match(feature, kept[i].feature) > confidence_threshold
              IN  [tracker |-> tracker,
                   recent_unknowns |->
                       IF is_new_unknown
                       THEN Append(kept, [feature |-> feature, timestamp |-> time])
                       ELSE kept,
                   events |->
                       IF is_new_unknown
                       THEN <<AlertEvent(tracker.id, time, feature),
                              Event("send_alert_email", "N/A", tracker.id),
                              Event("unknown_alert", "N/A", tracker.id)>>
                       ELSE << >>]
         ELSE [tracker |-> tracker, recent_unknowns |-> unknowns, events |-> << >>]
    ELSE [tracker |-> tracker, recent_unknowns |-> unknowns, events |-> << >>]

\* lines 191-215: tracker, recent_unknowns and collaborator calls after the
\* alert logic
Alert(tracker, name, feature, unknowns, time) ==
    IF name = Unknown /\ ~tracker.alert_sent
    THEN LET time_visible == time - tracker.first_seen IN
         IF time_visible > UNKNOWN_ALERT_DURATION
         THEN LET kept == StillRecent(unknowns, time)
                  is_new_unknown ==
                      ~\E i \in 1..Len(kept) :
                          Match(feature, kept[i].feature) > confidence_threshold
              IN  [tracker |-> [tracker EXCEPT !.alert_sent = TRUE],
                   recent_unknowns |->
                       IF is_new_unknown
                       THEN Append(kept, [feature |-> feature, timestamp |-> time])
                       ELSE kept,
                   events |->
                       IF is_new_unknown
                       THEN <<AlertEvent(tracker.id, time, feature),
                              Event("send_alert_email", "N/A", tracker.id),
                              Event("unknown_alert", "N/A", tracker.id)>>
                       ELSE << >>]
         ELSE [tracker |-> tracker, recent_unknowns |-> unknowns, events |-> << >>]
    ELSE [tracker |-> tracker, recent_unknowns |-> unknowns, events |-> << >>]

\* lines 218-219: tracker['box'] = current_box; tracker['ttl'] = TRACKER_TTL
Seen(tracker, current_box) ==
    [box |-> current_box, ttl |-> TRACKER_TTL] @@ tracker

\* a slip of Expired: a tracker is dropped only below zero
ExpiredBelowZero(ttl) == ttl < 0

\* line 238: if tracker['ttl'] <= 0
Expired(ttl) == ttl <= 0

\* lines 234-242: the trackers after the clean-up of a frame
CleanUpTrackers(faces, matched) ==
    LET aged == [t \in DOMAIN faces |->
                    IF t \notin matched
                    THEN [faces[t] EXCEPT !.ttl = @ - 1]
                    ELSE faces[t]]
        dead_trackers == {t \in DOMAIN faces : Expired(aged[t].ttl)}
    IN  [t \in (DOMAIN faces) \ dead_trackers |-> aged[t]]

----------------------------------------------------------------------------
(* recognize_faces_live: the while loop *)

\* the state at line 91, before the first frame
TrackStart ==
    /\ pc = "capture"
    /\ tracked_faces = << >>
    /\ next_tracker_id = 0
    /\ recent_unknowns = << >>
    /\ matched_tracker_ids = {}
    /\ remaining = 0
    /\ now = 0
    /\ events = << >>
    /\ frame_no = 0
    /\ detected = 0
    /\ last_match = << >>
    /\ assigned = << >>
    /\ assoc = << >>

\* lines 93-117: a frame is read gap seconds after the last one and the
\* detector finds n faces in it
CaptureFrame(n, gap, max_frames, max_detections) ==
    /\ pc = "capture"
    /\ frame_no < max_frames
    /\ detected + n <= max_detections
    /\ pc' = "faces"
    /\ now' = now + gap
    /\ frame_no' = frame_no + 1
    /\ remaining' = n
    /\ matched_tracker_ids' = {}
    /\ assoc' = << >>
    /\ UNCHANGED <<tracked_faces, next_tracker_id, recent_unknowns, events,
                   detected, last_match, assigned>>

\* lines 118-231: one pass of the for loop, for the detection [x, y, w, h]
\* whose best catalogue match is current_name with best_score and whose
\* embedding is feature
ProcessFace(face, current_name, best_score, feature) ==
    /\ pc = "faces"
    /\ remaining > 0
    /\ LET current_box == CurrentBox(face[1], face[2], face[3], face[4])
           best == BestTracker(tracked_faces, DOMAIN tracked_faces, current_box, NoBest)
           matches == Matches(best, matched_tracker_ids)
           tracker0 == IF matches THEN tracked_faces[best.id]
                       ELSE NewTracker(next_tracker_id, now)
           tracker1 == [tracker0 EXCEPT !.predictions =
                           DequeAppend(@, Prediction(current_name, best_score))]
           confirmed == Confirm(tracker1, MostCommon(tracker1.predictions))
           alerted == Alert(confirmed.tracker, confirmed.name, feature,
                            recent_unknowns, now)
           tracker == Seen(alerted.tracker, current_box)
           key == IF matches THEN best.id ELSE next_tracker_id
       IN  /\ tracked_faces' = Put(tracked_faces, key, tracker)
           /\ matched_tracker_ids' = matched_tracker_ids \cup {key}
           /\ next_tracker_id' = IF matches THEN next_tracker_id
                                 ELSE NextTrackerId(next_tracker_id)
           /\ recent_unknowns' = alerted.recent_unknowns
           /\ events' = events \o confirmed.events \o alerted.events
           /\ last_match' = Put(last_match, key, frame_no)
           /\ assigned' = IF matches THEN assigned ELSE Append(assigned, tracker.id)
           /\ assoc' = Append(assoc, [box |-> current_box,
                                      tracker_id |-> key,
                                      created |-> ~matches,
                                      best_iou |-> best.iou,
                                      name |-> confirmed.name])
    /\ remaining' = remaining - 1
    /\ detected' = detected + 1
    /\ UNCHANGED <<pc, now, frame_no>>

\* lines 233-248: the clean-up after the last detection, then the next pass
CleanUp ==
    /\ pc = "faces"
    /\ remaining = 0
    /\ tracked_faces' = CleanUpTrackers(tracked_faces, matched_tracker_ids)
    /\ last_match' = [t \in DOMAIN tracked_faces' |-> last_match[t]]
    /\ pc' = "capture"
    /\ UNCHANGED <<next_tracker_id, recent_unknowns, matched_tracker_ids,
                   remaining, now, events, frame_no, detected, assigned, assoc>>

\* lines 94-96 and 246-248: no frame could be read, or 'q' was pressed
ExitLoop ==
    /\ pc = "capture"
    /\ pc' = "done"
    /\ UNCHANGED <<tracked_faces, next_tracker_id, recent_unknowns,
                   matched_tracker_ids, remaining, now, events, frame_no,
                   detected, last_match, assigned, assoc>>

----------------------------------------------------------------------------
(* get_iou on its own *)

IouIdle == boxA = <<0, 0, 0, 0>> /\ boxB = <<0, 0, 0, 0>> /\ iou = << >>

\* boxes [x1, y1, x2, y2] = [x, y, x + w, y + h] with w, h >= 0
BoxSpace ==
    {b \in (0..MaxCoord) \X (0..MaxCoord) \X (0..MaxCoord) \X (0..MaxCoord) :
        b[1] <= b[3] /\ b[2] <= b[4]}

ComputeIou ==
    /\ iou = << >>
    /\ iou' = [ab |-> get_iou(boxA, boxB),
               ba |-> get_iou(boxB, boxA),
               aa |-> get_iou(boxA, boxA)]
    /\ UNCHANGED <<boxA, boxB>>

----------------------------------------------------------------------------
(* Calls on the controller *)

Returned(op, ret) == [op |-> op, ret |-> ret]

\* the value of a call that returns nothing
NoValue == [returned |-> None]

\* the execution contexts that call the controller
Contexts == {1, 2}

\* a context that is inside no call of the controller
IdleCall == [at |-> "idle"]

\* no call of the controller is running or has been made
NoCalls == threads = [c \in Contexts |-> IdleCall] /\ issued = << >>

RLIdle ==
    /\ rl = ReinforcementTracker(200, 6500, 9200, 8000, MaxPending)
    /\ result = Returned("__init__", NoValue)
    /\ disk = NoFile
    /\ NoCalls

InitRL ==
    /\ \E it \in InitialThresholds :
          rl = ReinforcementTracker(200, 6500, 9200, it, MaxPending)
    /\ result = Returned("__init__", NoValue)
    /\ disk = NoFile
    /\ NoCalls
    /\ TrackStart
    /\ IouIdle

LogPrediction(predicted_name, similarity, frame_id) ==
    /\ rl' = log_prediction(rl, predicted_name, similarity, frame_id)
    /\ result' = Returned("log_prediction", NoValue)
    /\ UNCHANGED <<ctxvars, disk, trackvars, iouvars>>

ProvideFeedback(frame_id, is_correct, true_name, tie, cap) ==
    /\ FindPrediction(rl.pending_feedback, frame_id) # 0
          => (Len(rl.feedback_history) < cap /\ rl.session_feedback_count < cap)
    /\ LET r == provide_feedback(rl, frame_id, is_correct, true_name, tie)
       IN  /\ rl' = r.self
           /\ result' = Returned("provide_feedback", r.ret)
    /\ UNCHANGED <<ctxvars, disk, trackvars, iouvars>>

\* log_prediction called for the next frame of the video, frame_id being
\* the number of the frame
LogNextFrame(predicted_name, similarity, max_frames) ==
    /\ frame_no < max_frames
    /\ frame_no' = frame_no + 1
    /\ rl' = log_prediction(rl, predicted_name, similarity, frame_no + 1)
    /\ result' = Returned("log_prediction", NoValue)
    /\ UNCHANGED <<ctxvars, disk, pc, tracked_faces, next_tracker_id, recent_unknowns,
                   matched_tracker_ids, remaining, now, events, detected,
                   last_match, assigned, assoc, iouvars>>

ProvideFeedbackOnLatest(is_correct, true_name, tie, cap) ==
    /\ rl.pending_feedback # << >>
          => (Len(rl.feedback_history) < cap /\ rl.session_feedback_count < cap)
    /\ LET r == provide_feedback_on_latest(rl, is_correct, true_name, tie)
       IN  /\ rl' = r.self
           /\ result' = Returned("provide_feedback_on_latest", r.ret)
    /\ UNCHANGED <<ctxvars, disk, trackvars, iouvars>>

GetThreshold(person_name) ==
    /\ result' = Returned("get_threshold", [value |-> get_threshold(rl, person_name)])
    /\ UNCHANGED <<ctxvars, rl, disk, trackvars, iouvars>>

Save ==
    /\ disk' = save(rl)
    /\ result' = Returned("save", NoValue)
    /\ UNCHANGED <<ctxvars, rl, trackvars, iouvars>>

Load ==
    /\ LET r == load(rl, disk)
       IN  /\ rl' = r.self
           /\ result' = Returned("load", [value |-> r.ret])
    /\ UNCHANGED <<ctxvars, disk, trackvars, iouvars>>

Reset ==
    /\ rl' = reset(rl)
    /\ result' = Returned("reset", NoValue)
    /\ UNCHANGED <<ctxvars, disk, trackvars, iouvars>>

\* the process ends and a new one constructs a controller with the
\* default arguments; the file stays
Restart ==
    /\ rl' = ReinforcementTracker(200, 6500, 9200, 8000, MaxPending)
    /\ result' = Returned("__init__", NoValue)
    /\ UNCHANGED <<ctxvars, disk, trackvars, iouvars>>

\* the file is removed or replaced by one that save did not write
Replace(file) ==
    /\ disk' = file
    /\ UNCHANGED <<ctxvars, rl, result, trackvars, iouvars>>

\* the values of true_name that make a difference: line 138 reads it only
\* when is_correct is false
TrueNameArgs(is_correct, names) == IF is_correct THEN {None} ELSE names

\* the outcomes of the comparison of line 145: two when similarity equals
\* the decimal value of threshold + 0.1, one otherwise
Ties(self, frame_id, is_correct) ==
    LET i == FindPrediction(self.pending_feedback, frame_id)
    IN  IF /\ is_correct
           /\ i # 0
           /\ self.pending_feedback[i].similarity = self.threshold + 1000
        THEN BOOLEAN
        ELSE {FALSE}

NextRL ==
    \/ \E n \in PredictedNames, s \in Sims, f \in FrameIds :
          LogPrediction(n, s, f)
    \/ \E f \in FrameIds, c \in BOOLEAN :
          \E t \in TrueNameArgs(c, TrueNames), tie \in Ties(rl, f, c) :
              ProvideFeedback(f, c, t, tie, MaxFeedback)

SpecRL == InitRL /\ [][NextRL]_vars

InitRLDeep ==
    /\ rl = ReinforcementTracker(200, 6500, 9200, 9200, MaxPending)
    /\ result = Returned("__init__", NoValue)
    /\ disk = NoFile
    /\ NoCalls
    /\ TrackStart
    /\ IouIdle

NextRLDeep ==
    \/ \E n \in PredictedNames, s \in DeepSims, f \in DeepFrameIds :
          LogPrediction(n, s, f)
    \/ \E f \in DeepFrameIds, c \in BOOLEAN :
          \E t \in TrueNameArgs(c, DeepTrueNames), tie \in Ties(rl, f, c) :
              ProvideFeedback(f, c, t, tie, DeepFeedback)

SpecRLDeep == InitRLDeep /\ [][NextRLDeep]_vars

InitAdapt ==
    /\ \E it \in AdaptThresholds :
          rl = ReinforcementTracker(200, 6500, 9200, it, MaxPending)
    /\ result = Returned("__init__", NoValue)
    /\ disk = NoFile
    /\ NoCalls
    /\ TrackStart
    /\ IouIdle

\* feedback on predictions of one person, and reads of the threshold
NextAdapt ==
    \/ \E n \in PredictedNames, s \in DeepSims, f \in DeepFrameIds :
          rl.pending_feedback = << >> /\ LogPrediction(n, s, f)
    \/ \E f \in DeepFrameIds, c \in BOOLEAN :
          \E t \in TrueNameArgs(c, PredictedNames), tie \in Ties(rl, f, c) :
              ProvideFeedback(f, c, t, tie, AdaptFeedback)
    \/ \E n \in AdaptNames :
          GetThreshold(n)

SpecAdapt == InitAdapt /\ [][NextAdapt]_vars

\* predictions logged frame after frame, feedback on any frame
\* (the disjuncts of NextBuffer)
NextBuffer ==
    \/ \E n \in PredictedNames, s \in PersistSims :
          LogNextFrame(n, s, BufferFrames)
    \/ \E f \in 1..BufferFrames, c \in BOOLEAN :
          \E t \in TrueNameArgs(c, TrueNames), tie \in Ties(rl, f, c) :
              ProvideFeedback(f, c, t, tie, BufferFrames)

InitBuffer == RLIdle /\ TrackStart /\ IouIdle

SpecBuffer == InitBuffer /\ [][NextBuffer]_vars

\* files that save did not write: unreadable, or a dict without the keys
\* load reads at lines 392 and 398
ForeignFiles ==
    {NoFile, Garbage,
     Pickled([threshold |-> 7000]),
     Pickled([threshold |-> 7000, person_thresholds |-> [Bob |-> 9000],
              person_stats |-> [Bob |-> DefaultStats]])}

InitPersist ==
    /\ rl = ReinforcementTracker(200, 6500, 9200, 8000, MaxPending)
    /\ result = Returned("__init__", NoValue)
    /\ disk = NoFile
    /\ NoCalls
    /\ TrackStart
    /\ IouIdle

NextPersist ==
    \/ \E n \in PredictedNames, s \in PersistSims, f \in PersistFrameIds :
          \* one prediction is answered before the next is logged
          rl.pending_feedback = << >> /\ LogPrediction(n, s, f)
    \/ \E f \in PersistFrameIds, c \in BOOLEAN :
          \E t \in TrueNameArgs(c, TrueNames), tie \in Ties(rl, f, c) :
              ProvideFeedback(f, c, t, tie, PersistFeedback)
    \/ Save
    \/ Load
    \/ Reset
    \/ Restart
    \/ \E file \in ForeignFiles : Replace(file)

SpecPersist == InitPersist /\ [][NextPersist]_vars

----------------------------------------------------------------------------
(* Specification of the recognition loop *)

InitTrack == RLIdle /\ TrackStart /\ IouIdle

\* the loop fed with at most max_faces faces per frame, drawn from the
\* given detections, catalogue names, scores, features and frame gaps
TrackLoop(max_faces, max_frames, max_detections, faces, names, scores, features, gaps) ==
    \/ \E n \in 0..max_faces, gap \in gaps :
          CaptureFrame(n, gap, max_frames, max_detections)
             /\ UNCHANGED <<rlvars, iouvars>>
    \/ \E face \in faces, current_name \in names,
          best_score \in scores, feature \in features :
          ProcessFace(face, current_name, best_score, feature)
             /\ UNCHANGED <<rlvars, iouvars>>
    \/ CleanUp /\ UNCHANGED <<rlvars, iouvars>>
    \/ ExitLoop /\ UNCHANGED <<rlvars, iouvars>>

\* several faces at three overlapping places, one name: association,
\* expiry and ids
NextTrack ==
    TrackLoop(MaxFaces, MaxFrames, MaxDetections,
              Faces, {"Alice"}, {9000}, {"u1"}, FrameGaps)

SpecTrack == InitTrack /\ [][NextTrack]_vars

\* one face at one place, recognised as any name: confirmation
NextConfirm ==
    TrackLoop(1, ConfirmFrames, ConfirmFrames,
              {<<0, 0, 4, 5>>}, KnownNames, Scores, {"u1"}, FrameGaps)

SpecConfirm == InitTrack /\ [][NextConfirm]_vars

\* one face at one place, recognised or not, with varying embeddings and
\* long or short times between frames: alerts of one tracker
NextAlert ==
    TrackLoop(1, AlertFrames, AlertFrames,
              {<<0, 0, 4, 5>>}, {"Alice"}, Scores \cup {3000}, Features, AlertGaps)

SpecAlert == InitTrack /\ [][NextAlert]_vars

\* unrecognised faces at two places: alerts of several trackers
NextCooldown ==
    TrackLoop(2, CooldownFrames, CooldownDetections,
              AlertFaces, {"Alice"}, {3000}, Features, CooldownGaps)

SpecCooldown == InitTrack /\ [][NextCooldown]_vars

----------------------------------------------------------------------------
(* Specification of get_iou *)

InitIou ==
    /\ RLIdle
    /\ TrackStart
    /\ boxA \in BoxSpace
    /\ boxB \in BoxSpace
    /\ iou = << >>

NextIou == ComputeIou /\ UNCHANGED <<rlvars, trackvars>>

SpecIou == InitIou /\ [][NextIou]_vars

----------------------------------------------------------------------------
(* Claims about the threshold controller *)

InBounds(v) == rl.min_threshold <= v /\ v <= rl.max_threshold

Clamp(v, lo, hi) == Max2(lo, Min2(hi, v))

\* C1: after every call of any sequence of log_prediction and
\* provide_feedback calls the global threshold lies in
\* [min_threshold, max_threshold].
C1_GlobalThresholdInBounds == InBounds(rl.threshold)

\* C2: every value stored in person_thresholds lies in
\* [min_threshold, max_threshold].
C2_PersonThresholdsInBounds ==
    \A n \in DOMAIN rl.person_thresholds : InBounds(rl.person_thresholds[n])

\* C9: provide_feedback with a frame_id that is not pending returns a
\* failure result and leaves every attribute of the controller unchanged.
C9_UnknownFrameLeavesState ==
    [][\A f \in FrameIds, c \in BOOLEAN, t \in TrueNames, tie \in BOOLEAN :
          (/\ FindPrediction(rl.pending_feedback, f) = 0
           /\ ProvideFeedback(f, c, t, tie, MaxFeedback))
          => (/\ rl' = rl
              /\ result'.op = "provide_feedback"
              /\ result'.ret = [success |-> FALSE])]_vars

\* a failed provide_feedback has returned while predictions were pending
\* and feedback had been recorded
C9_Witness ==
    /\ result = Returned("provide_feedback", [success |-> FALSE])
    /\ Len(rl.pending_feedback) > 0
    /\ Len(rl.feedback_history) > 0

\* C10: a correct feedback with similarity < threshold + 0.1 makes the
\* global threshold old - learning_rate * (old - similarity) clamped to
\* [min_threshold, max_threshold]; with similarity >= threshold + 0.1 it
\* leaves the threshold unchanged; 0.80 with similarity 0.82 gives 0.8004.
\* (The records of feedback_history hold old and new threshold of each
\* event; the case similarity = old + 0.1 exactly, which floating point
\* may round either way, is left out.)
C10_CorrectFeedbackRule ==
    \A i \in 1..Len(rl.feedback_history) :
        LET e == rl.feedback_history[i]
            old == e.old_threshold
        IN  (e.is_correct /\ e.similarity # old + 1000) =>
               /\ e.new_threshold =
                     IF e.similarity < old + 1000
                     THEN Clamp(old - Mul(rl.learning_rate, old - e.similarity),
                                rl.min_threshold, rl.max_threshold)
                     ELSE old
               /\ (old = 8000 /\ e.similarity = 8200 /\ rl.learning_rate = 200)
                     => e.new_threshold = 8004

----------------------------------------------------------------------------
(* Claims about the recognition loop *)

Confirmed(tracker) == tracker.confirmed_name # Unknown

\* the calls of one kind made for one tracker
Calls(ev, kind, t) ==
    Cardinality({i \in 1..Len(ev) : ev[i].event = kind /\ ev[i].tracker_id = t})

\* C3: once a tracker's confirmed_name is a name other than "Unknown" it
\* keeps that value in every later step as long as the tracker exists,
\* whatever is appended to its history; and the name displayed for a
\* confirmed tracker is its confirmed_name.
C3_ConfirmedNameIsLocked ==
    [][/\ \A t \in (DOMAIN tracked_faces) \cap (DOMAIN tracked_faces') :
             Confirmed(tracked_faces[t]) =>
                tracked_faces'[t].confirmed_name = tracked_faces[t].confirmed_name
       /\ Len(assoc') > Len(assoc) =>
             LET a == assoc'[Len(assoc')]
             IN  Confirmed(tracked_faces'[a.tracker_id]) =>
                    a.name = tracked_faces'[a.tracker_id].confirmed_name]_vars

\* a confirmed tracker whose history has since turned to another majority
C3_Witness ==
    \E t \in DOMAIN tracked_faces :
        /\ Confirmed(tracked_faces[t])
        /\ MostCommon(tracked_faces[t].predictions) # tracked_faces[t].confirmed_name
        /\ Len(assoc) > 0
        /\ assoc[Len(assoc)].tracker_id = t
        /\ assoc[Len(assoc)].name = tracked_faces[t].confirmed_name

BecomesConfirmed(t) ==
    /\ t \in DOMAIN tracked_faces'
    /\ Confirmed(tracked_faces'[t])
    /\ t \in DOMAIN tracked_faces => ~Confirmed(tracked_faces[t])

\* C4: for every tracker the entry event (the KNOWN_PERSON_ENTRY log line
\* and the welcome) fires exactly once, in the step in which the tracker
\* becomes confirmed, and never again; a tracker that is not confirmed has
\* fired none.
C4_EntryFiresOnceAtConfirmation ==
    /\ [](\A t \in 0..(next_tracker_id - 1) :
            /\ Calls(events, "KNOWN_PERSON_ENTRY", t) <= 1
            /\ Calls(events, "welcome", t) = Calls(events, "KNOWN_PERSON_ENTRY", t)
            /\ t \in DOMAIN tracked_faces =>
                  Calls(events, "KNOWN_PERSON_ENTRY", t) =
                     IF Confirmed(tracked_faces[t]) THEN 1 ELSE 0)
    /\ [][\A t \in 0..(next_tracker_id' - 1) :
             Calls(events', "KNOWN_PERSON_ENTRY", t) =
                Calls(events, "KNOWN_PERSON_ENTRY", t)
                   + (IF BecomesConfirmed(t) THEN 1 ELSE 0)]_vars

\* a tracker confirmed by its first three observations has been observed
\* again and has one entry event
C4_Witness ==
    \E t \in DOMAIN tracked_faces :
        /\ Confirmed(tracked_faces[t])
        /\ Len(tracked_faces[t].predictions) >= 4
        /\ \A i \in 1..3 : tracked_faces[t].predictions[i] # Unknown
        /\ Calls(events, "KNOWN_PERSON_ENTRY", t) = 1

\* C5: the clean-up of a frame removes exactly the trackers whose last
\* match lies TRACKER_TTL frames back: a tracker unmatched for TRACKER_TTL
\* consecutive frames goes in the clean-up of the last of them and not
\* before, and a tracker matched in the frame stays.  Frames without
\* detections are included.
C5_RemovedAfterTtlUnmatchedFrames ==
    [][(pc = "faces" /\ pc' = "capture") =>
          \A t \in DOMAIN tracked_faces :
              (t \in DOMAIN tracked_faces') <=>
                 (frame_no - last_match[t] < TRACKER_TTL)]_vars

\* a clean-up has removed a tracker and kept one unmatched for 4 frames
C5_Witness ==
    /\ pc = "capture"
    /\ \E i \in 1..Len(assigned) : assigned[i] \notin DOMAIN tracked_faces
    /\ \E t \in DOMAIN tracked_faces :
          frame_no - last_match[t] = TRACKER_TTL - 1

\* the trackers with the highest IoU against box, and the one the loop
\* meets first among them (-1 when there is no tracker)
Highest(box) ==
    {t \in DOMAIN tracked_faces :
        \A u \in DOMAIN tracked_faces :
            LET it == get_iou(box, tracked_faces[t].box)
                iu == get_iou(box, tracked_faces[u].box)
            IN  iu.num * it.den <= it.num * iu.den}

FirstHighest(box) == IF Highest(box) = {} THEN -1 ELSE SetMin(Highest(box))

\* C6: a detection whose highest IoU against the existing trackers is
\* above 0.5, with that tracker not yet matched in the frame, is given
\* that tracker (box updated, ttl reset to TRACKER_TTL); any other
\* detection gets a new tracker with a fresh id, confirmed_name "Unknown",
\* a streak counted from 0 and both flags false.
C6_AssociationRule ==
    [][Len(assoc') > Len(assoc) =>
          LET a == assoc'[Len(assoc')]
              b == FirstHighest(a.box)
              high == /\ b # -1
                      /\ LET i == get_iou(a.box, tracked_faces[b].box)
                         IN  10 * i.num > 5 * i.den
                      /\ b \notin matched_tracker_ids
              tracker == tracked_faces'[a.tracker_id]
          IN  /\ tracker.box = a.box
              /\ tracker.ttl = TRACKER_TTL
              /\ IF high
                 THEN /\ a.tracker_id = b
                      /\ ~a.created
                      /\ DOMAIN tracked_faces' = DOMAIN tracked_faces
                 ELSE /\ a.created
                      /\ a.tracker_id \notin DOMAIN tracked_faces
                      /\ \A i \in 1..Len(assigned) : assigned[i] < a.tracker_id
                      /\ tracker.id = a.tracker_id
                      /\ tracker.confirmed_name = Unknown
                      /\ Len(tracker.predictions) = 1
                      /\ tracker.confirmation_streak =
                            IF tracker.predictions[1] # Unknown THEN 1 ELSE 0
                      /\ ~tracker.alert_sent
                      /\ ~tracker.log_and_audio_triggered
                      /\ tracker.first_seen = now]_vars

\* one tracker existed; of two detections in a frame the one with IoU 0.6
\* was given that tracker and the one with IoU 0.3 a new tracker
C6_Witness ==
    /\ Len(assoc) = 2
    /\ next_tracker_id = 2
    /\ ~assoc[1].created
    /\ assoc[1].tracker_id = 0
    /\ 10 * assoc[1].best_iou.num = 6 * assoc[1].best_iou.den
    /\ assoc[2].created
    /\ assoc[2].tracker_id = 1
    /\ 10 * assoc[2].best_iou.num = 3 * assoc[2].best_iou.den

\* C7: tracker ids are unique and strictly increasing in creation order;
\* the id of a destroyed tracker is never given to a later tracker.
C7_IdsUniqueIncreasing ==
    /\ \A i, j \in 1..Len(assigned) : i < j => assigned[i] < assigned[j]
    /\ \A t \in DOMAIN tracked_faces :
          /\ tracked_faces[t].id = t
          /\ \E i \in 1..Len(assigned) : assigned[i] = t

\* a tracker was created in a frame after an earlier tracker was destroyed
C7_Witness ==
    /\ pc = "faces"
    /\ \E t \in DOMAIN tracked_faces :
          /\ tracked_faces[t].first_seen = now
          /\ \E i \in 1..Len(assigned) :
                assigned[i] < t /\ assigned[i] \notin DOMAIN tracked_faces

----------------------------------------------------------------------------
(* Claims about get_iou *)

Area(b) == (b[3] - b[1]) * (b[4] - b[2])

\* C8: get_iou(A, B) and get_iou(B, A) have the same outcome for all boxes
\* A and B, and get_iou(A, A) is 1 for every box A of positive width and
\* height.
C8_IouSymmetricAndReflexive ==
    iou # << >> =>
       /\ iou.ab = iou.ba
       /\ (boxA[3] > boxA[1] /\ boxA[4] > boxA[2]) =>
             iou.aa.den > 0 /\ iou.aa.num = iou.aa.den

\* get_iou was applied to two different boxes of different area that
\* overlap in part
C8_Witness ==
    /\ iou # << >>
    /\ Area(boxA) # Area(boxB)
    /\ boxA[4] - boxA[2] # boxB[4] - boxB[2]
    /\ iou.ab.num > 0
    /\ iou.ab.num < iou.ab.den

----------------------------------------------------------------------------
(* Claims about the feedback rules *)

\* C11: an incorrect feedback makes the global threshold
\* old + learning_rate * (1 + similarity) clamped to
\* [min_threshold, max_threshold]; the new threshold is never lower than
\* the old one; of two false positives the one with the higher similarity
\* gives a threshold at least as high; 0.8004 with learning_rate 0.02 and
\* similarity 0.90 gives 0.8384.
C11_IncorrectFeedbackRule ==
    /\ \A i \in 1..Len(rl.feedback_history) :
          LET e == rl.feedback_history[i]
          IN  ~e.is_correct =>
                 /\ e.new_threshold =
                       Clamp(e.old_threshold + Mul(rl.learning_rate, Scale + e.similarity),
                             rl.min_threshold, rl.max_threshold)
                 /\ e.new_threshold >= e.old_threshold
    /\ \A s1, s2 \in Sims :
          s1 <= s2 => UpdateThreshold(rl, s1, FALSE, FALSE)
                         <= UpdateThreshold(rl, s2, FALSE, FALSE)
    /\ UpdateThreshold([rl EXCEPT !.threshold = 8004, !.learning_rate = 200],
                       9000, FALSE, FALSE) = 8384

----------------------------------------------------------------------------
(* Claims about statistics and persistence *)

\* the name a feedback is booked on
Resolved(predicted_name, is_correct, true_name) ==
    IF is_correct THEN predicted_name
    ELSE IF true_name # None THEN true_name ELSE Unknown

\* a successful feedback adds one to total and to one of correct and
\* incorrect of the resolved name and leaves every other entry as it was
FeedbackBooksOneName ==
    \A f \in PersistFrameIds, c \in BOOLEAN, t \in TrueNames, tie \in BOOLEAN :
        (/\ FindPrediction(rl.pending_feedback, f) # 0
         /\ ProvideFeedback(f, c, t, tie, PersistFeedback))
        => LET pred == rl.pending_feedback[FindPrediction(rl.pending_feedback, f)]
               n == Resolved(pred.predicted, c, t)
               old == StatsOf(rl.person_stats, n)
           IN  /\ DOMAIN rl'.person_stats = (DOMAIN rl.person_stats) \cup {n}
               /\ rl'.person_stats[n].total = old.total + 1
               /\ rl'.person_stats[n].correct = old.correct + (IF c THEN 1 ELSE 0)
               /\ rl'.person_stats[n].incorrect = old.incorrect + (IF c THEN 0 ELSE 1)
               /\ \A m \in (DOMAIN rl.person_stats) \ {n} :
                     rl'.person_stats[m] = rl.person_stats[m]

TotalsAddUp ==
    \A n \in DOMAIN rl.person_stats :
        rl.person_stats[n].total =
           rl.person_stats[n].correct + rl.person_stats[n].incorrect

\* the step keeps every person entry and lowers none of its counters
CountersKept ==
    \A n \in DOMAIN rl.person_stats :
        /\ n \in DOMAIN rl'.person_stats
        /\ rl'.person_stats[n].total >= rl.person_stats[n].total
        /\ rl'.person_stats[n].correct >= rl.person_stats[n].correct
        /\ rl'.person_stats[n].incorrect >= rl.person_stats[n].incorrect

\* C12 as stated: each successful feedback books exactly one name, total =
\* correct + incorrect in every state, and no call on the controller other
\* than reset lowers a counter or removes a person entry.
C12_CountersKeptExceptByReset ==
    /\ []TotalsAddUp
    /\ [][/\ FeedbackBooksOneName
          /\ result'.op \notin {"reset", "__init__"} => CountersKept]_vars

\* C12, amended: each successful feedback books exactly one name, total =
\* correct + incorrect in every state, and no call on the controller other
\* than reset and load lowers a counter or removes a person entry.
C12_CountersKeptExceptByResetOrLoad ==
    /\ []TotalsAddUp
    /\ [][/\ FeedbackBooksOneName
          /\ result'.op \notin {"reset", "__init__", "load"} => CountersKept]_vars

\* a feedback was booked on one of three persons
C12_Witness ==
    /\ result.op = "provide_feedback"
    /\ result.ret.success
    /\ result.ret.actual = "Bob"
    /\ Cardinality(DOMAIN rl.person_stats) = 2
    /\ rl.person_stats["Bob"].total = 1
    /\ rl.person_stats["Bob"].incorrect = 1

----------------------------------------------------------------------------
(* Claims about person thresholds *)

\* the overrides after a successful feedback, given what the override of
\* the resolved name is set to when its accuracy is below 0.75 (strict) and
\* above 0.95 with 10 samples (lenient)
OverrideRule(strict, lenient) ==
    Len(rl'.feedback_history) > Len(rl.feedback_history) =>
       LET n == rl'.feedback_history[Len(rl'.feedback_history)].actual
           st == rl'.person_stats[n]
           had == n \in DOMAIN rl.person_thresholds
           has == n \in DOMAIN rl'.person_thresholds
       IN  /\ \A m \in ((DOMAIN rl.person_thresholds)
                          \cup (DOMAIN rl'.person_thresholds)) \ {n} :
                 /\ m \in DOMAIN rl.person_thresholds
                 /\ m \in DOMAIN rl'.person_thresholds
                 /\ rl'.person_thresholds[m] = rl.person_thresholds[m]
           /\ IF st.total < 5
              THEN (has <=> had)
                   /\ (has => rl'.person_thresholds[n] = rl.person_thresholds[n])
              ELSE IF 4 * st.correct < 3 * st.total
              THEN has /\ rl'.person_thresholds[n] = strict
              ELSE IF 20 * st.correct > 19 * st.total /\ st.total >= 10
              THEN has /\ rl'.person_thresholds[n] = lenient
              ELSE /\ has <=> had
                   /\ has => rl'.person_thresholds[n] =
                                Mul(7000, rl.person_thresholds[n])
                                   + Mul(3000, rl'.threshold)

OverridesNeedFiveSamples ==
    \A n \in DOMAIN rl.person_thresholds :
        n \in DOMAIN rl.person_stats /\ rl.person_stats[n].total >= 5

\* C13 as stated: an override is created or changed by a feedback only
\* when the person's total is >= 5 after it; accuracy < 0.75 sets it to the
\* updated global threshold + 0.08, accuracy > 0.95 with total >= 10 to the
\* updated global threshold - 0.05, and otherwise an existing override
\* becomes 0.7 * override + 0.3 * global and none is created.
C13_OverrideRuleUnclamped ==
    /\ []OverridesNeedFiveSamples
    /\ [][OverrideRule(rl'.threshold + 800, rl'.threshold - 500)]_vars

\* C13, amended: as above, with global + 0.08 limited to max_threshold
\* from above and global - 0.05 limited to min_threshold from below.
C13_OverrideRule ==
    /\ []OverridesNeedFiveSamples
    /\ [][OverrideRule(Min2(rl'.max_threshold, rl'.threshold + 800),
                       Max2(rl'.min_threshold, rl'.threshold - 500))]_vars

\* a feedback left the person below 0.75 accuracy with global + 0.08 above
\* max_threshold, and the override is max_threshold
C13_Witness ==
    /\ result.op = "provide_feedback"
    /\ result.ret.success
    /\ LET n == result.ret.actual
       IN  /\ rl.person_stats[n].total >= 5
           /\ 4 * rl.person_stats[n].correct < 3 * rl.person_stats[n].total
           /\ rl.threshold + 800 > rl.max_threshold
           /\ n \in DOMAIN rl.person_thresholds
           /\ rl.person_thresholds[n] = rl.max_threshold

\* C14: get_threshold(name) returns the override of name when there is
\* one and the global threshold otherwise, also when no name is given, and
\* changes nothing of the controller.
C14_GetThresholdReads ==
    [][\A n \in AdaptNames :
          GetThreshold(n) =>
             /\ rl' = rl
             /\ disk' = disk
             /\ result'.ret.value =
                   IF n # None /\ n \in DOMAIN rl.person_thresholds
                   THEN rl.person_thresholds[n]
                   ELSE rl.threshold]_vars

\* get_threshold returned an override that differs from the global value
C14_Witness ==
    /\ result.op = "get_threshold"
    /\ "Alice" \in DOMAIN rl.person_thresholds
    /\ result.ret.value = rl.person_thresholds["Alice"]
    /\ result.ret.value # rl.threshold

----------------------------------------------------------------------------
(* Claims about the pending buffer *)

\* the frames logged so far that have had no feedback
Unresolved ==
    {f \in 1..frame_no :
        \A i \in 1..Len(rl.feedback_history) : rl.feedback_history[i].frame_id # f}

PendingFrames == {rl.pending_feedback[i].frame_id : i \in 1..Len(rl.pending_feedback)}

----------------------------------------------------------------------------
(* Claims about save and load *)

\* a controller as the constructor leaves it
Fresh == ReinforcementTracker(200, 6500, 9200, 8000, MaxPending)

\* the file at the path was written by save
WrittenBySave == disk.kind = "pickle" /\ "version" \in DOMAIN disk.data

\* C16: save writes the global threshold, the person thresholds, the
\* person statistics and the feedback history of the controller, and load
\* of that file into a freshly constructed controller succeeds and gives a
\* controller with the same global threshold, person thresholds and
\* person statistics and a feedback history of the same length.
C16_SaveLoadRoundTrip ==
    [][/\ Save =>
             /\ disk'.kind = "pickle"
             /\ disk'.data.threshold = rl.threshold
             /\ disk'.data.person_thresholds = rl.person_thresholds
             /\ disk'.data.person_stats = rl.person_stats
             /\ Len(disk'.data.feedback_history) = Len(rl.feedback_history)
       /\ (Load /\ rl = Fresh /\ WrittenBySave) =>
             /\ result'.ret.value = TRUE
             /\ rl'.threshold = disk.data.threshold
             /\ rl'.person_thresholds = disk.data.person_thresholds
             /\ rl'.person_stats = disk.data.person_stats
             /\ Len(rl'.feedback_history) = Len(disk.data.feedback_history)]_vars

\* a controller that has had no feedback itself holds the threshold,
\* statistics and two-entry history of the file it loaded
C16_Witness ==
    /\ result = Returned("load", [value |-> TRUE])
    /\ WrittenBySave
    /\ rl.session_feedback_count = 0
    /\ Len(rl.feedback_history) = 2
    /\ rl.threshold # Fresh.threshold
    /\ rl.threshold = disk.data.threshold
    /\ rl.person_stats = disk.data.person_stats
    /\ DOMAIN rl.person_stats # {}

\* C17: load when no file exists at the path returns False and leaves
\* every attribute of the controller as it was.
C17_LoadMissingFile ==
    [][(Load /\ disk.kind = "missing") =>
          /\ rl' = rl
          /\ disk' = disk
          /\ result' = Returned("load", [value |-> FALSE])]_vars

\* load has returned False with no file at the path and the controller
\* still holds what its feedback gave it
C17_Witness ==
    /\ result = Returned("load", [value |-> FALSE])
    /\ disk = NoFile
    /\ Len(rl.feedback_history) > 0
    /\ rl.threshold # Fresh.threshold

\* C18: a load that fails on an existing file (unreadable, or a dict
\* without a key load needs) leaves every attribute of the controller as
\* it was before the call.
C18_FailedLoadLeavesState ==
    [][(Load /\ disk.kind # "missing" /\ result'.ret.value = FALSE) => rl' = rl]_vars

----------------------------------------------------------------------------
(* Unknown-person alerts *)

\* the positions in evs of the UNKNOWN_PERSON_ALERT calls
Alerts(evs) == {i \in 1..Len(evs) : evs[i].event = "UNKNOWN_PERSON_ALERT"}

\* the alerts raised for the track with this id
AlertsOf(evs, id) == {i \in Alerts(evs) : evs[i].tracker_id = id}

\* the track of the detection processed last
LastTrack(as) == as[Len(as)].tracker_id

\* C19: for every track at most one unknown-person alert is raised, and an
\* alert is raised only for a detection whose displayed name is "Unknown",
\* whose track is unconfirmed, has been visible for longer than
\* UNKNOWN_ALERT_DURATION since first_seen and had alert_sent false; the
\* flag is true afterwards.
C19_OneAlertPerTrack ==
    /\ [](\A id \in 0..next_tracker_id : Cardinality(AlertsOf(events, id)) <= 1)
    /\ [][Alerts(events') # Alerts(events) =>
             LET id == LastTrack(assoc') IN
             /\ Alerts(events') \ Alerts(events) = AlertsOf(events', id)
             /\ assoc'[Len(assoc')].name = Unknown
             /\ id \in DOMAIN tracked_faces
             /\ tracked_faces'[id].confirmed_name = Unknown
             /\ now - tracked_faces[id].first_seen > UNKNOWN_ALERT_DURATION
             /\ ~tracked_faces[id].alert_sent
             /\ tracked_faces'[id].alert_sent]_vars

\* a track that raised its alert is detected again, still "Unknown", once
\* the cooldown of that alert is over, and no second alert is raised for it
C19_Witness ==
    /\ assoc # << >>
    /\ assoc[Len(assoc)].name = Unknown
    /\ \E i \in AlertsOf(events, LastTrack(assoc)) :
           now - events[i].time >= UNKNOWN_COOLDOWN_SECONDS
    /\ Cardinality(AlertsOf(events, LastTrack(assoc))) = 1

\* the alert check of lines 193-215 is made for the detection processed by
\* this step: alert_sent of its track turns true
AlertCheck ==
    /\ assoc' # assoc
    /\ assoc' # << >>
    /\ tracked_faces'[LastTrack(assoc')].alert_sent
    /\ LastTrack(assoc') \in DOMAIN tracked_faces
    /\ ~tracked_faces[LastTrack(assoc')].alert_sent

\* an alert raised for an embedding matching feature is within the cooldown
\* window at this time
InCooldown(evs, feature, time) ==
    \E i \in Alerts(evs) :
        /\ Match(feature, evs[i].feature) > confidence_threshold
        /\ time - evs[i].time < UNKNOWN_COOLDOWN_SECONDS

\* C20: an alert check, from any track, for an embedding matching that of an
\* alert raised less than UNKNOWN_COOLDOWN_SECONDS ago raises no alert, a
\* check with no such alert raises one, under the embedding checked; so two
\* alerts for matching embeddings are at least UNKNOWN_COOLDOWN_SECONDS
\* apart.
C20_CooldownSuppresses ==
    /\ [](\A i, j \in Alerts(events) :
              (i < j /\ Match(events[j].feature, events[i].feature) > confidence_threshold)
                  => events[j].time - events[i].time >= UNKNOWN_COOLDOWN_SECONDS)
    /\ [][\A face \in AlertFaces, feature \in Features :
              (ProcessFace(face, "Alice", 3000, feature) /\ AlertCheck) =>
                  IF InCooldown(events, feature, now)
                  THEN Alerts(events') = Alerts(events)
                  ELSE \E i \in Alerts(events') \ Alerts(events) :
                           /\ events'[i].feature = feature
                           /\ events'[i].time = now]_vars

\* two tracks raised alerts for the same embedding exactly
\* UNKNOWN_COOLDOWN_SECONDS apart: the check of the second was made at the
\* moment the entry of the first left the window
C20_Witness ==
    \E i, j \in Alerts(events) :
        /\ events[i].feature = events[j].feature
        /\ events[i].tracker_id # events[j].tracker_id
        /\ events[j].time - events[i].time = UNKNOWN_COOLDOWN_SECONDS

----------------------------------------------------------------------------
(* The recognition loop beside a threshold controller *)

ConsultFeedback == 2 \* feedback events accepted in one run of SpecConsult
ConsultFrames == 2   \* frames captured in one run of SpecConsult

ConsultScores == {8200, 9000}

\* a controller receives feedback while recognize_faces_live, called with
\* its default confidence_threshold, processes frames of one face
NextConsult ==
    \/ \E n \in PredictedNames, s \in PersistSims, f \in PersistFrameIds :
          rl.pending_feedback = << >> /\ LogPrediction(n, s, f)
    \/ \E f \in PersistFrameIds, c \in BOOLEAN :
          \E t \in TrueNameArgs(c, TrueNames), tie \in Ties(rl, f, c) :
              ProvideFeedback(f, c, t, tie, ConsultFeedback)
    \/ TrackLoop(1, ConsultFrames, ConsultFrames,
                 {<<0, 0, 4, 5>>}, PredictedNames, ConsultScores, {"u1"}, FrameGaps)

SpecConsult == InitTrack /\ [][NextConsult]_vars

\* the prediction appended by the step to the history of its track
Appended == LET d == tracked_faces'[LastTrack(assoc')].predictions IN d[Len(d)]

\* C21: the name of a frame's best match is appended to the history of the
\* track exactly when its score exceeds the controller's current
\* get_threshold(candidate_name), "Unknown" otherwise, so that a threshold
\* moved by feedback decides the frames that follow.
C21_ThresholdFromController ==
    [][\A n \in PredictedNames, s \in ConsultScores :
          ProcessFace(<<0, 0, 4, 5>>, n, s, "u1") =>
              Appended = IF s > get_threshold(rl, n) THEN n ELSE Unknown]_vars

----------------------------------------------------------------------------
(* The recognition loop and its collaborators *)

CollabFrames == 3    \* frames captured in one run of SpecCollab

\* seconds between the frames of SpecCollab: a track is visible for longer
\* than UNKNOWN_ALERT_DURATION at its second frame
CollabGaps == {6}

\* the calls of one pass, counted from 1; 0 stands for no failure
FailingCalls == 0..3

Notifications == {"welcome", "send_alert_email", "unknown_alert"}

\* the collaborator method behind a recorded call
CallOf(event) ==
    IF event \in {"KNOWN_PERSON_ENTRY", "UNKNOWN_PERSON_ALERT"}
    THEN "log_event"
    ELSE event

\* whether the caller waits for the work of the collaborator: log_event
\* writes the row itself (logger.py 27-30), welcome starts a thread
\* (audio_alerts.py 50-53), send_alert_email talks to the SMTP server itself
\* (notifications.py 21-42), unknown_alert starts a thread when the alert
\* sound was found and otherwise runs engine.runAndWait() (55-63)
Inline(call, has_sound) ==
    CASE call = "log_event" -> TRUE
      [] call = "welcome" -> FALSE
      [] call = "send_alert_email" -> TRUE
      [] call = "unknown_alert" -> ~has_sound

\* whether an exception raised by the work of the collaborator reaches the
\* caller: not from a thread, and not from send_alert_email, which catches
\* Exception (notifications.py 21, 43-44)
Propagates(call, has_sound) ==
    Inline(call, has_sound) /\ call # "send_alert_email"

\* the exception raised in a call, as recorded among the events
Raised(call) ==
    [event |-> "raised", name |-> call.event, tracker_id |-> call.tracker_id]

\* the calls of the pass that the loop waits for
Awaited(calls, has_sound) ==
    {i \in 1..Len(calls) : Inline(CallOf(calls[i].event), has_sound)}

\* lines 118-231 with the collaborators: has_sound tells whether the
\* AudioNotifier found its alert sound, failing which call of the pass
\* raises.  An exception that reaches the loop leaves it (pc = "raised")
\* with the assignments made so far; a notification the loop waits for
\* leaves it inside the call (pc = "blocked") until the call returns.
CollabFace(face, current_name, best_score, feature, has_sound, failing) ==
    /\ pc = "faces"
    /\ remaining > 0
    /\ LET current_box == CurrentBox(face[1], face[2], face[3], face[4])
           best == BestTracker(tracked_faces, DOMAIN tracked_faces, current_box, NoBest)
           matches == Matches(best, matched_tracker_ids)
           tracker0 == IF matches THEN tracked_faces[best.id]
                       ELSE NewTracker(next_tracker_id, now)
           tracker1 == [tracker0 EXCEPT !.predictions =
                           DequeAppend(@, Prediction(current_name, best_score))]
           confirmed == Confirm(tracker1, MostCommon(tracker1.predictions))
           alerted == Alert(confirmed.tracker, confirmed.name, feature,
                            recent_unknowns, now)
           key == IF matches THEN best.id ELSE next_tracker_id
           calls == confirmed.events \o alerted.events
           escapes == failing # 0 /\ Propagates(CallOf(calls[failing].event), has_sound)
           \* the tracker when the exception leaves the pass: line 188 or
           \* line 215 and lines 218-219 have not run
           left == IF failing <= Len(confirmed.events)
                   THEN [confirmed.tracker EXCEPT !.log_and_audio_triggered =
                                                      tracker1.log_and_audio_triggered]
                   ELSE confirmed.tracker
       IN  /\ failing <= Len(calls)
           /\ tracked_faces' = Put(tracked_faces, key,
                                   IF escapes THEN left
                                   ELSE Seen(alerted.tracker, current_box))
           /\ recent_unknowns' =
                  IF ~escapes THEN alerted.recent_unknowns
                  ELSE IF failing <= Len(confirmed.events) THEN recent_unknowns
                  ELSE StillRecent(recent_unknowns, now)
           /\ events' =
                  IF failing = 0 THEN events \o calls
                  ELSE events \o SubSeq(calls, 1, failing) \o <<Raised(calls[failing])>>
                       \o (IF escapes THEN << >>
                           ELSE SubSeq(calls, failing + 1, Len(calls)))
           /\ pc' = IF escapes THEN "raised"
                    ELSE IF \E i \in Awaited(calls, has_sound) :
                               CallOf(calls[i].event) \in Notifications
                    THEN "blocked"
                    ELSE "faces"
           /\ matched_tracker_ids' = matched_tracker_ids \cup {key}
           /\ next_tracker_id' = IF matches THEN next_tracker_id
                                 ELSE NextTrackerId(next_tracker_id)
           /\ last_match' = Put(last_match, key, frame_no)
           /\ assigned' = IF matches THEN assigned ELSE Append(assigned, key)
           /\ assoc' = Append(assoc, [box |-> current_box,
                                      tracker_id |-> key,
                                      created |-> ~matches,
                                      best_iou |-> best.iou,
                                      name |-> confirmed.name])
    /\ remaining' = remaining - 1
    /\ detected' = detected + 1
    /\ UNCHANGED <<now, frame_no>>

\* the notification the loop waited for has returned
NotificationReturns ==
    /\ pc = "blocked"
    /\ pc' = "faces"
    /\ UNCHANGED <<tracked_faces, next_tracker_id, recent_unknowns,
                   matched_tracker_ids, remaining, now, events, frame_no,
                   detected, last_match, assigned, assoc>>

NextCollab ==
    \/ \E n \in 0..1, gap \in CollabGaps :
          CaptureFrame(n, gap, CollabFrames, CollabFrames)
             /\ UNCHANGED <<rlvars, iouvars>>
    \/ \E current_name \in PredictedNames, best_score \in Scores,
          has_sound \in BOOLEAN, failing \in FailingCalls :
          CollabFace(<<0, 0, 4, 5>>, current_name, best_score, "u1", has_sound, failing)
             /\ UNCHANGED <<rlvars, iouvars>>
    \/ NotificationReturns /\ UNCHANGED <<rlvars, iouvars>>
    \/ CleanUp /\ UNCHANGED <<rlvars, iouvars>>
    \/ ExitLoop /\ UNCHANGED <<rlvars, iouvars>>

SpecCollab == InitTrack /\ [][NextCollab]_vars

\* the positions in evs of the exceptions raised by collaborators
Failures(evs) == {i \in 1..Len(evs) : evs[i].event = "raised"}

\* C22: a failure of log_event, welcome, unknown_alert or send_alert_email
\* during a pass never aborts frame processing: the loop stays in the frame
\* with one detection less to process, and the flag of the event that was
\* attempted (log_and_audio_triggered for an entry, alert_sent for an
\* alert) is set on the track.
C22_CollaboratorFailureContained ==
    [][Failures(events') # Failures(events) =>
          /\ pc' # "raised"
          /\ remaining' = remaining - 1
          /\ LET t == tracked_faces'[LastTrack(assoc')]
                 r == events'[CHOOSE i \in Failures(events') \ Failures(events) : TRUE]
             IN  IF r.name \in {"KNOWN_PERSON_ENTRY", "welcome"}
                 THEN t.log_and_audio_triggered
                 ELSE t.alert_sent]_vars

\* C24: every welcome, unknown alert and alert email raised by a pass is
\* handed to a background execution unit: the loop goes on to the next
\* detection without waiting inside the notifier, whichever path it takes.
C24_NotificationsInBackground ==
    pc # "blocked"

----------------------------------------------------------------------------
(* The controller called from two execution contexts *)

ConcCalls == 3       \* controller calls started in one run of SpecConc

\* the class holds no lock and its methods take none, so the contexts
\* interleave between the statements below and, inside an assignment
\* self.x = f(self.x), between the evaluation of the right-hand side and
\* the store.  list.append and list.pop are single steps.

\* the comparison of line 145 at a tie of similarity and threshold + 0.1
TiesAt(threshold, similarity, is_correct) ==
    IF is_correct /\ similarity = threshold + 1000 THEN BOOLEAN ELSE {FALSE}

\* line 102: self.pending_feedback.append(prediction)
LogAppend(c, predicted_name, similarity, frame_id) ==
    /\ threads[c] = IdleCall
    /\ Len(issued) < ConcCalls
    /\ rl' = [rl EXCEPT !.pending_feedback =
                 Append(@, [predicted |-> predicted_name,
                            similarity |-> similarity,
                            frame_id |-> frame_id])]
    /\ threads' = [threads EXCEPT ![c] = [at |-> "trim"]]
    /\ issued' = Append(issued, [op |-> "log_prediction",
                                 predicted |-> predicted_name,
                                 similarity |-> similarity,
                                 frame_id |-> frame_id])
    /\ UNCHANGED <<result, disk, trackvars, iouvars>>

\* lines 105-106: the oldest entry is dropped when the list is too long
LogTrim(c) ==
    /\ threads[c].at = "trim"
    /\ rl' = IF Len(rl.pending_feedback) > rl.max_pending
             THEN [rl EXCEPT !.pending_feedback = Tail1(@)]
             ELSE rl
    /\ threads' = [threads EXCEPT ![c] = IdleCall]
    /\ result' = Returned("log_prediction", NoValue)
    /\ UNCHANGED <<issued, disk, trackvars, iouvars>>

\* lines 125-138: the prediction is looked up; the call returns when there
\* is none
FeedbackFind(c, frame_id, is_correct, true_name) ==
    /\ threads[c] = IdleCall
    /\ Len(issued) < ConcCalls
    /\ issued' = Append(issued, [op |-> "provide_feedback",
                                 frame_id |-> frame_id,
                                 is_correct |-> is_correct,
                                 true_name |-> true_name])
    /\ LET i == FindPrediction(rl.pending_feedback, frame_id) IN
       IF i = 0
       THEN /\ result' = Returned("provide_feedback", NotFound(rl, frame_id).ret)
            /\ UNCHANGED threads
       ELSE /\ threads' = [threads EXCEPT ![c] =
                  [at |-> "threshold",
                   frame_id |-> frame_id,
                   is_correct |-> is_correct,
                   pred |-> rl.pending_feedback[i],
                   actual_name |-> IF is_correct THEN rl.pending_feedback[i].predicted
                                   ELSE IF true_name # None THEN true_name
                                   ELSE Unknown]]
            /\ UNCHANGED result
    /\ UNCHANGED <<rl, disk, trackvars, iouvars>>

\* lines 141-152 up to the store: old_threshold is read and the new value of
\* self.threshold is computed; nothing is stored when a correct prediction
\* was not close to the threshold
FeedbackCompute(c, tie) ==
    /\ threads[c].at = "threshold"
    /\ LET t == threads[c]
           stores == ~t.is_correct
                        \/ CloseToThreshold(t.pred.similarity, rl.threshold, tie)
       IN  threads' = [threads EXCEPT ![c] =
               [at |-> IF stores THEN "store" ELSE "book",
                old_threshold |-> rl.threshold,
                computed |-> UpdateThreshold(rl, t.pred.similarity, t.is_correct, tie)]
               @@ t]
    /\ UNCHANGED <<rl, result, issued, disk, trackvars, iouvars>>

\* lines 147 and 152: the store into self.threshold
FeedbackStore(c) ==
    /\ threads[c].at = "store"
    /\ rl' = [rl EXCEPT !.threshold = threads[c].computed]
    /\ threads' = [threads EXCEPT ![c].at = "book"]
    /\ UNCHANGED <<result, issued, disk, trackvars, iouvars>>

\* lines 155-206: statistics, person threshold, history and counter
FeedbackBook(c) ==
    /\ threads[c].at = "book"
    /\ LET t == threads[c]
           stats == UpdateStats(StatsOf(rl.person_stats, t.actual_name),
                                t.pred.similarity, t.is_correct)
           feedback_entry == [frame_id |-> t.frame_id,
                              predicted |-> t.pred.predicted,
                              actual |-> t.actual_name,
                              is_correct |-> t.is_correct,
                              similarity |-> t.pred.similarity,
                              reward |-> IF t.is_correct THEN 1 ELSE -1,
                              old_threshold |-> t.old_threshold,
                              new_threshold |-> rl.threshold]
       IN  rl' = [rl EXCEPT
                    !.person_stats = Put(@, t.actual_name, stats),
                    !.similarity_correct =
                        IF t.is_correct THEN Append(@, t.pred.similarity) ELSE @,
                    !.similarity_incorrect =
                        IF t.is_correct THEN @ ELSE Append(@, t.pred.similarity),
                    !.person_thresholds =
                        AdaptPersonThreshold(@, t.actual_name, stats, rl.threshold,
                                             rl.min_threshold, rl.max_threshold),
                    !.feedback_history = Append(@, feedback_entry),
                    !.session_feedback_count = @ + 1]
    /\ threads' = [threads EXCEPT ![c].at = "filter"]
    /\ UNCHANGED <<result, issued, disk, trackvars, iouvars>>

\* line 208, right-hand side: the list without the entries of frame_id
FeedbackFilter(c) ==
    /\ threads[c].at = "filter"
    /\ threads' = [threads EXCEPT ![c] =
           [at |-> "remove",
            kept |-> RemoveFrame(rl.pending_feedback, threads[c].frame_id)]
           @@ threads[c]]
    /\ UNCHANGED <<rl, result, issued, disk, trackvars, iouvars>>

\* line 208, the store into self.pending_feedback, and the return
FeedbackRemove(c) ==
    /\ threads[c].at = "remove"
    /\ rl' = [rl EXCEPT !.pending_feedback = threads[c].kept]
    /\ threads' = [threads EXCEPT ![c] = IdleCall]
    /\ LET t == threads[c]
       IN  result' = Returned("provide_feedback",
                        [success |-> TRUE,
                         reward |-> IF t.is_correct THEN 1 ELSE -1,
                         old_threshold |-> t.old_threshold,
                         new_threshold |-> rl.threshold,
                         predicted |-> t.pred.predicted,
                         actual |-> t.actual_name,
                         similarity |-> t.pred.similarity])
    /\ UNCHANGED <<issued, disk, trackvars, iouvars>>

NextConc ==
    \E c \in Contexts :
        \/ \E n \in PredictedNames, s \in PersistSims, f \in FrameIds :
              LogAppend(c, n, s, f)
        \/ LogTrim(c)
        \/ \E f \in FrameIds, ic \in BOOLEAN :
              \E t \in TrueNameArgs(ic, TrueNames) : FeedbackFind(c, f, ic, t)
        \/ \E tie \in BOOLEAN :
              /\ threads[c].at = "threshold"
              /\ tie \in TiesAt(rl.threshold, threads[c].pred.similarity,
                                threads[c].is_correct)
              /\ FeedbackCompute(c, tie)
        \/ FeedbackStore(c)
        \/ FeedbackBook(c)
        \/ FeedbackFilter(c)
        \/ FeedbackRemove(c)

SpecConc == InitTrack /\ [][NextConc]_vars

\* the controllers a call can leave when it runs alone
AfterCall(self, call) ==
    IF call.op = "log_prediction"
    THEN {log_prediction(self, call.predicted, call.similarity, call.frame_id)}
    ELSE {provide_feedback(self, call.frame_id, call.is_correct,
                           call.true_name, tie).self : tie \in BOOLEAN}

RECURSIVE Serial(_, _, _)
\* the controllers left by the calls numbered todo run one after another,
\* in any order
Serial(self, calls, todo) ==
    IF todo = {}
    THEN {self}
    ELSE UNION {UNION {Serial(next, calls, todo \ {i}) :
                          next \in AfterCall(self, calls[i])} : i \in todo}

\* no context is inside a call
Quiescent == \A c \in Contexts : threads[c] = IdleCall

\* C23: when log_prediction and provide_feedback, or two provide_feedback
\* calls, run on different execution contexts, the controller is, once all
\* calls have returned, in a state that the same calls run one after
\* another in some order leave: no logged prediction and no update of
\* threshold, statistics or history is lost.
C23_ControllerCallsSerialized ==
    Quiescent => rl \in Serial(Fresh, issued, 1..Len(issued))

----------------------------------------------------------------------------
(* Direction of the threshold after correct feedback *)

\* the call returned last was a successful provide_feedback with
\* is_correct true
CorrectFeedbackReturned ==
    /\ result.op = "provide_feedback"
    /\ result.ret.success
    /\ result.ret.reward = 1

----------------------------------------------------------------------------
(* Association with a tracker matched earlier in the frame *)

AssocFrames == 3     \* frames captured in one run of SpecAssoc
AssocDetections == 5 \* faces processed in one run of SpecAssoc

\* two detections that overlap each other with IoU 0.6
AssocFaces == {<<0, 0, 4, 5>>, <<1, 0, 4, 5>>}

\* up to two overlapping faces in each frame
NextAssoc ==
    TrackLoop(2, AssocFrames, AssocDetections,
              AssocFaces, {"Alice"}, {9000}, {"u1"}, FrameGaps)

SpecAssoc == InitTrack /\ [][NextAssoc]_vars

\* the trackers not yet matched in the frame whose IoU against box is above
\* 0.5 and the highest among the unmatched ones
BestUnmatched(box) ==
    LET unmatched == (DOMAIN tracked_faces) \ matched_tracker_ids IN
    {t \in unmatched :
        /\ AboveHalf(get_iou(box, tracked_faces[t].box))
        /\ \A u \in unmatched :
               ~IouGreater(get_iou(box, tracked_faces[u].box),
                           get_iou(box, tracked_faces[t].box))}

\* C26: a detection is compared only against the trackers not yet matched
\* in the frame: it is given the unmatched tracker of highest IoU when that
\* IoU is above 0.5, also when a tracker matched already has a higher one,
\* and a new tracker is created only when no unmatched tracker is above 0.5.
C26_ComparedWithUnmatchedOnly ==
    [][Len(assoc') > Len(assoc) =>
          LET a == assoc'[Len(assoc')] IN
          IF BestUnmatched(a.box) # {}
          THEN ~a.created /\ a.tracker_id \in BestUnmatched(a.box)
          ELSE a.created]_vars

----------------------------------------------------------------------------
(* get_iou on degenerate boxes *)

\* C27: get_iou returns 0 and does not fail whenever either box has
\* non-positive area, also when both boxes are degenerate.
C27_IouZeroOnDegenerateBoxes ==
    (iou # << >> /\ (Area(boxA) <= 0 \/ Area(boxB) <= 0)) =>
        (iou.ab.den > 0 /\ iou.ab.num = 0)

----------------------------------------------------------------------------
(* Claims about the confirmation streak *)

\* the majority candidate of the k-th observation of a track whose history
\* p has lost no entry yet
Candidate(p, k) == MostCommon(SubSeq(p, 1, k))

\* C28: when a track is confirmed as name N, the majority candidate of each
\* of its last CONFIRMATION_THRESHOLD observations was N; and a track
\* whose predictions are Alice, Alice, Alice is confirmed as Alice at the
\* third observation with exactly one entry event.
C28_StreakCountsSameName ==
    [][\A t \in DOMAIN tracked_faces' :
          LET p == tracked_faces'[t].predictions
              N == tracked_faces'[t].confirmed_name
          IN  /\ BecomesConfirmed(t) =>
                    /\ Len(p) >= CONFIRMATION_THRESHOLD
                    /\ \A k \in (Len(p) - CONFIRMATION_THRESHOLD + 1)..Len(p) :
                           Candidate(p, k) = N
              /\ p = <<"Alice", "Alice", "Alice">> =>
                    /\ N = "Alice"
                    /\ Calls(events', "KNOWN_PERSON_ENTRY", t) = 1]_vars

\* the track of the detection processed by the step as it was before the
\* step: a track created by the step starts unconfirmed with streak 0
Before(t) ==
    IF t \in DOMAIN tracked_faces
    THEN tracked_faces[t]
    ELSE [confirmed_name |-> Unknown, confirmation_streak |-> 0]

\* the observations among the first n of history p whose majority
\* candidate is a known name
KnownMajorities(p, n) == {k \in 1..n : Candidate(p, k) # Unknown}

----------------------------------------------------------------------------
(* The prediction history of a track *)

HistoryFrames == 11  \* frames captured in one run of SpecHistory

\* one face seen in every frame, in more frames than the history holds,
\* recognised as Alice with a score above the threshold or equal to it
NextHistory ==
    \/ \E gap \in FrameGaps :
          CaptureFrame(1, gap, HistoryFrames, HistoryFrames)
             /\ UNCHANGED <<rlvars, iouvars>>
    \/ \E current_name \in {"Alice"}, best_score \in Scores :
          ProcessFace(<<0, 0, 4, 5>>, current_name, best_score, "u1")
             /\ UNCHANGED <<rlvars, iouvars>>
    \/ CleanUp /\ UNCHANGED <<rlvars, iouvars>>
    \/ ExitLoop /\ UNCHANGED <<rlvars, iouvars>>

SpecHistory == InitTrack /\ [][NextHistory]_vars

\* the last n entries of s, all of s when it has fewer
LastN(s, n) == IF Len(s) <= n THEN s ELSE SubSeq(s, Len(s) - n + 1, Len(s))

\* the value that occurs most often in w and, among the values that occur
\* as often, the one whose first occurrence in w is the earliest
MostFrequentEarliest(w) ==
    CHOOSE v \in {w[i] : i \in 1..Len(w)} :
        \A u \in {w[i] : i \in 1..Len(w)} \ {v} :
            \/ Count(w, u) < Count(w, v)
            \/ Count(w, u) = Count(w, v) /\ FirstIndex(w, v) < FirstIndex(w, u)

\* C30: an observation appends the name of the best match to the history
\* of the track when score > threshold, strictly, and "Unknown" otherwise;
\* the history keeps the PREDICTION_HISTORY_SIZE most recent predictions,
\* and the candidate, which an unconfirmed track counts in its streak when
\* it is a known name and takes as its name when it is confirmed, is the
\* most frequent value of that window, the earliest met among equals.
C30_HistoryAndCandidate ==
    [][\A current_name \in {"Alice"}, best_score \in Scores :
          ProcessFace(<<0, 0, 4, 5>>, current_name, best_score, "u1") =>
              LET t == LastTrack(assoc')
                  old == IF t \in DOMAIN tracked_faces
                         THEN tracked_faces[t].predictions ELSE << >>
                  new == tracked_faces'[t]
                  window == LastN(Append(old, IF best_score > confidence_threshold
                                              THEN current_name ELSE Unknown),
                                  PREDICTION_HISTORY_SIZE)
                  candidate == MostFrequentEarliest(window)
              IN  /\ new.predictions = window
                  /\ Before(t).confirmed_name = Unknown =>
                        /\ new.confirmation_streak =
                              Before(t).confirmation_streak
                                 + (IF candidate # Unknown THEN 1 ELSE 0)
                        /\ Confirmed(new) => new.confirmed_name = candidate]_vars

\* the eleventh observation of an unconfirmed track has pushed the oldest
\* prediction out of the window, which then holds as many "Unknown" as
\* names with a name met first, and the streak has counted the name
C30_Witness ==
    \E t \in DOMAIN tracked_faces :
        LET p == tracked_faces[t].predictions IN
        /\ last_match[t] = PREDICTION_HISTORY_SIZE + 1
        /\ frame_no = PREDICTION_HISTORY_SIZE + 1
        /\ Len(p) = PREDICTION_HISTORY_SIZE
        /\ 2 * Count(p, Unknown) = Len(p)
        /\ p[1] # Unknown
        /\ tracked_faces[t].confirmation_streak = 1

----------------------------------------------------------------------------
(* Claims about the alert flag of a track *)

\* C31: in every reachable state, a track whose alert_sent flag is true
\* has had an unknown-person alert raised for it (an UNKNOWN_PERSON_ALERT
\* call carrying its id)
C31_AlertSentMeansAlerted ==
    \A t \in DOMAIN tracked_faces :
        tracked_faces[t].alert_sent =>
            \E i \in 1..Len(events) :
                /\ events[i].event = "UNKNOWN_PERSON_ALERT"
                /\ events[i].tracker_id = t

----------------------------------------------------------------------------
(* Claims about the effect of a feedback on buffer and history *)

\* the sequence s without its i-th entry
RemoveAt(s, i) == SubSeq(s, 1, i - 1) \o SubSeq(s, i + 1, Len(s))

\* C32: a successful provide_feedback(frame_id) removes exactly the
\* resolved entry from the pending buffer (the others stay in their order,
\* the buffer is one shorter) and appends exactly one record to
\* feedback_history, leaving the earlier records as they were.
C32_FeedbackRemovesOneEntry ==
    [][\A f \in FrameIds, c \in BOOLEAN, t \in TrueNames, tie \in BOOLEAN :
          (/\ FindPrediction(rl.pending_feedback, f) # 0
           /\ ProvideFeedback(f, c, t, tie, MaxFeedback))
          => /\ rl'.pending_feedback =
                   RemoveAt(rl.pending_feedback, FindPrediction(rl.pending_feedback, f))
             /\ Len(rl'.pending_feedback) = Len(rl.pending_feedback) - 1
             /\ Len(rl'.feedback_history) = Len(rl.feedback_history) + 1
             /\ SubSeq(rl'.feedback_history, 1, Len(rl.feedback_history))
                   = rl.feedback_history]_vars

----------------------------------------------------------------------------
(* Claims about the threshold of the candidate "Unknown" *)

UnknownFeedback == 6 \* feedback events accepted in one run of SpecUnknown

\* predictions of one person answered one by one, as correct or as wrong
\* without a true name, and reads of the threshold for "Unknown"
NextUnknown ==
    \/ \E n \in PredictedNames, s \in DeepSims, f \in DeepFrameIds :
          rl.pending_feedback = << >> /\ LogPrediction(n, s, f)
    \/ \E f \in DeepFrameIds, c \in BOOLEAN :
          \E t \in TrueNameArgs(c, {None}), tie \in Ties(rl, f, c) :
              ProvideFeedback(f, c, t, tie, UnknownFeedback)
    \/ GetThreshold(Unknown)

SpecUnknown == InitAdapt /\ [][NextUnknown]_vars

\* C33: after any sequence of feedback events, those resolved to the name
\* "Unknown" included, get_threshold("Unknown") is the global threshold
C33_UnknownUsesGlobalThreshold ==
    /\ get_threshold(rl, Unknown) = rl.threshold
    /\ (result.op = "get_threshold") => result.ret.value = rl.threshold

----------------------------------------------------------------------------
(* Claims about what a save and load round trip restores *)

\* the controller a new process has after loading the file that save
\* writes for the controller self
Restored(self) == load(Fresh, save(self)).self

\* C34: save followed by load restores all mutable state of the
\* controller, the pending buffer included: the controller restored into a
\* fresh one has the pending predictions of the saved one, and a prediction
\* logged before the save can receive feedback after the load.
C34_RoundTripRestoresPending ==
    /\ load(Fresh, save(rl)).ret = TRUE
    /\ Restored(rl).threshold = rl.threshold
    /\ Restored(rl).pending_feedback = rl.pending_feedback
    /\ \A f \in PersistFrameIds :
          FindPrediction(rl.pending_feedback, f) # 0 =>
             provide_feedback(Restored(rl), f, TRUE, None, FALSE).ret.success

\* the file exists and load cannot restore the controller from it
Malformed(file) ==
    /\ file.kind # "missing"
    /\ file.kind = "pickle" =>
          \E k \in {"threshold", "person_thresholds", "person_stats", "feedback_history"} :
              k \notin DOMAIN file.data

\* C35: load reports a malformed file with an outcome that differs from
\* the outcome it has when no file exists at the path
C35_MalformedDistinctFromAbsent ==
    [][(Load /\ Malformed(disk)) =>
          result'.ret # [value |-> load(rl, NoFile).ret]]_vars

----------------------------------------------------------------------------
(* Claims about feedback on the latest prediction *)

LatestFeedback == 1  \* feedback events accepted in one run of SpecLatest

\* the frame_id that provide_feedback_on_latest hands on, 0 with no entry
LatestFrame(self) ==
    IF self.pending_feedback = << >> THEN 0
    ELSE self.pending_feedback[Len(self.pending_feedback)].frame_id

\* predictions of two persons logged under any frame_id, feedback on the
\* latest one
NextLatest ==
    \/ \E n \in KnownNames, s \in Sims, f \in FrameIds :
          LogPrediction(n, s, f)
    \/ \E c \in BOOLEAN :
          \E t \in TrueNameArgs(c, {None}), tie \in Ties(rl, LatestFrame(rl), c) :
              ProvideFeedbackOnLatest(c, t, tie, LatestFeedback)

SpecLatest == InitTrack /\ [][NextLatest]_vars

\* C36: provide_feedback_on_latest applies the feedback to the prediction
\* logged last: the predicted name and the similarity returned, written to
\* the history record and used for the update of the threshold are those
\* of the last entry of the pending buffer, whatever frame_ids the entries
\* have; with an empty buffer it returns a failure and changes no state.
C36_FeedbackOnLatestUsesLastEntry ==
    [][\A c \in BOOLEAN, t \in {None}, tie \in BOOLEAN :
          ProvideFeedbackOnLatest(c, t, tie, LatestFeedback) =>
             IF rl.pending_feedback = << >>
             THEN result'.ret.success = FALSE /\ rl' = rl
             ELSE LET last == rl.pending_feedback[Len(rl.pending_feedback)]
                      record == rl'.feedback_history[Len(rl'.feedback_history)]
                  IN  /\ result'.ret.success
                      /\ result'.ret.predicted = last.predicted
                      /\ result'.ret.similarity = last.similarity
                      /\ Len(rl'.feedback_history) = Len(rl.feedback_history) + 1
                      /\ record.predicted = last.predicted
                      /\ record.similarity = last.similarity
                      /\ rl'.threshold = UpdateThreshold(rl, last.similarity, c, tie)]_vars

----------------------------------------------------------------------------
(* Claims about the association of one frame *)

\* the tracks given to the detections of the current frame so far
TracksOfFrame == {assoc[i].tracker_id : i \in 1..Len(assoc)}

\* C37: within one frame no two detections are given the same track:
\* every detection processed has a track of its own, the tracks matched in
\* the frame are those tracks and as many as the detections, and all of
\* them are still tracked after the clean-up of that frame.
C37_OneTrackPerDetection ==
    /\ [](/\ \A i, j \in 1..Len(assoc) :
                i # j => assoc[i].tracker_id # assoc[j].tracker_id
          /\ matched_tracker_ids = TracksOfFrame
          /\ Cardinality(matched_tracker_ids) = Len(assoc))
    /\ [][CleanUp => /\ Cardinality(matched_tracker_ids) = Len(assoc)
                     /\ matched_tracker_ids \subseteq DOMAIN tracked_faces']_vars

\* a frame with two detections has been swept: the first was given the
\* track of an earlier frame, the second overlapped that track best, got a
\* new track instead, and both tracks are still there
C37_Witness ==
    /\ pc = "capture"
    /\ Len(assoc) = 2
    /\ ~assoc[1].created
    /\ assoc[2].created
    /\ AboveHalf(assoc[2].best_iou)
    /\ {assoc[1].tracker_id, assoc[2].tracker_id} \subseteq DOMAIN tracked_faces

----------------------------------------------------------------------------
(* Claims about the order of alert and entry of a track *)

\* the entry events logged for the track with this id
EntriesOf(evs, id) ==
    {i \in 1..Len(evs) : evs[i].event = "KNOWN_PERSON_ENTRY" /\ evs[i].tracker_id = id}

\* C38: for every track no unknown-person alert is raised in or after the
\* frame in which the track is confirmed, and if an alert and an entry
\* event both occur for a track the alert comes strictly earlier.
C38_NoAlertOnceConfirmed ==
    /\ [](\A t \in 0..(next_tracker_id - 1) :
             \A a \in AlertsOf(events, t), e \in EntriesOf(events, t) : a < e)
    /\ [][\A t \in DOMAIN tracked_faces' :
             Confirmed(tracked_faces'[t]) =>
                AlertsOf(events', t) = AlertsOf(events, t)]_vars

\* a track had its alert raised while its streak was still short and was
\* confirmed, with its entry event, in a later frame
C38_Witness ==
    \E t \in DOMAIN tracked_faces :
        /\ Confirmed(tracked_faces[t])
        /\ tracked_faces[t].alert_sent
        /\ AlertsOf(events, t) # {}
        /\ EntriesOf(events, t) # {}

----------------------------------------------------------------------------
(* Claims about the bookkeeping of feedback *)

\* predictions, feedback, reset, and save and load of the file that save
\* wrote, by the same process or by a new one
NextRoundTrip ==
    \/ \E n \in PredictedNames, s \in PersistSims, f \in PersistFrameIds :
          rl.pending_feedback = << >> /\ LogPrediction(n, s, f)
    \/ \E f \in PersistFrameIds, c \in BOOLEAN :
          \E t \in TrueNameArgs(c, TrueNames), tie \in Ties(rl, f, c) :
              ProvideFeedback(f, c, t, tie, PersistFeedback)
    \/ Save
    \/ Load
    \/ Reset
    \/ Restart

SpecRoundTrip == InitPersist /\ [][NextRoundTrip]_vars

\* the sum of one counter over the persons of names
RECURSIVE SumOver(_, _, _)
SumOver(person_stats, names, counter) ==
    IF names = {} THEN 0
    ELSE LET n == CHOOSE x \in names : TRUE
         IN  person_stats[n][counter] + SumOver(person_stats, names \ {n}, counter)

\* C39: in every state reached by log_prediction, provide_feedback, reset
\* and save/load round trips, the length of feedback_history equals the sum
\* of total over the person statistics and the sum of the lengths of
\* similarity_correct and similarity_incorrect, and the history records
\* with is_correct true are as many as the sum of correct over the persons.
C39_HistoryMatchesCounters ==
    /\ Len(rl.feedback_history) =
          SumOver(rl.person_stats, DOMAIN rl.person_stats, "total")
    /\ Len(rl.feedback_history) =
          Len(rl.similarity_correct) + Len(rl.similarity_incorrect)
    /\ Cardinality({i \in 1..Len(rl.feedback_history) : rl.feedback_history[i].is_correct})
          = SumOver(rl.person_stats, DOMAIN rl.person_stats, "correct")

\* a new process has loaded a file that holds one correct and one wrong
\* feedback, booked on two persons
C39_Witness ==
    /\ result = Returned("load", [value |-> TRUE])
    /\ rl.session_feedback_count = 0
    /\ Len(rl.feedback_history) = 2
    /\ \E i, j \in 1..2 :
          rl.feedback_history[i].is_correct /\ ~rl.feedback_history[j].is_correct
    /\ Cardinality(DOMAIN rl.person_stats) = 2

----------------------------------------------------------------------------
(* Claims about reset *)

\* a controller constructed with threshold_bounds (0.85, 0.95) and
\* initial_threshold 0.90
Configured == ReinforcementTracker(200, 8500, 9500, 9000, MaxPending)

InitReset ==
    /\ rl = Configured
    /\ result = Returned("__init__", NoValue)
    /\ disk = NoFile
    /\ NoCalls
    /\ TrackStart
    /\ IouIdle

\* predictions, feedback and reset of the configured controller
NextReset ==
    \/ \E n \in PredictedNames, s \in Sims, f \in FrameIds :
          LogPrediction(n, s, f)
    \/ \E f \in FrameIds, c \in BOOLEAN :
          \E t \in TrueNameArgs(c, TrueNames), tie \in Ties(rl, f, c) :
              ProvideFeedback(f, c, t, tie, MaxFeedback)
    \/ Reset

SpecReset == InitReset /\ [][NextReset]_vars

\* C40: reset returns the controller to the learning state of a freshly
\* constructed controller with the same configuration: the global
\* threshold is the configured initial_threshold and lies inside the
\* bounds of the controller, and person thresholds, person statistics,
\* feedback history and pending buffer are empty.
C40_ResetGivesFreshController ==
    [][Reset =>
          /\ rl'.threshold = Configured.threshold
          /\ rl'.min_threshold <= rl'.threshold
          /\ rl'.threshold <= rl'.max_threshold
          /\ rl'.person_thresholds = << >>
          /\ rl'.person_stats = << >>
          /\ rl'.feedback_history = << >>
          /\ rl'.pending_feedback = << >>]_vars

====
